---- MODULE Spec2Model ----
(***************************************************************************)
(* Knowledge graph of obsidian_ontology_mcp: the builder                   *)
(* (src/src/obsidian_ontology_mcp/graph/builder.py) over a networkx        *)
(* DiGraph, one attribute dictionary per node and one data dictionary per  *)
(* ordered pair of nodes; the indexer (graph/indexer.py), the query engine *)
(* (graph/query.py) and the expand_context tool (mcp/tools.py) over it.    *)
(***************************************************************************)
EXTENDS Integers, Sequences, FiniteSets, TLC

VARIABLES graph, last, indexer, indexed, answer

vars == <<graph, last, indexer, indexed, answer>>

(***************************************************************************)
(* Bounds of the model.                                                    *)
(***************************************************************************)
\* concept ids that occur in records and relation lists; an id is "unknown"
\* whenever no node carries it
Ids == {"a", "b"}

\* preferred labels of the records of the builder's life
Labels == {<<"R">>}

\* largest number of records of one build_graph call
MaxRecords == 2

\* largest number of update_concept and remove_concept calls on one builder
MaxCalls == 1

\* largest max_depth of an expand_context call
MaxDepth == 2

\* largest limit of a search
MaxLimit == 3

RelationTypes == {"broader", "narrower", "related", "prerequisite"}

(***************************************************************************)
(* Sequences.                                                              *)
(***************************************************************************)
SeqToSet(s) == {s[i] : i \in 1..Len(s)}

(***************************************************************************)
(* SKOSConcept and its dictionary form.                                    *)
(***************************************************************************)
\* the relation lists of the model's records: empty, or one id
RelationLists(ids) == {<<>>} \cup {<<id>> : id \in ids}

\* Python's None, a value that is no text (a text is a sequence of characters)
None == <<"None">>

\* the records over ids, labels and the other texts given, with at most k
\* relation lists non-empty
Described(ids, labels, alt_labels, definitions, notations, k) ==
    {c \in [concept_id : ids, pref_label : labels, alt_labels : alt_labels,
            definition : definitions, notation : notations,
            broader : RelationLists(ids), narrower : RelationLists(ids),
            related : RelationLists(ids), prerequisite : RelationLists(ids),
            uri : {"uri"}, file_path : {"file_path"}, content : {<<"c">>}] :
        Len(c.broader) + Len(c.narrower) + Len(c.related) + Len(c.prerequisite) <= k}

\* the records that have a label and relation lists only
ConceptsWith(ids, labels, k) == Described(ids, labels, {<<>>}, {None}, {None}, k)

\* SKOSConcept.to_dict: the node attributes of a concept
to_dict(c) ==
    [concept_id |-> c.concept_id,
     uri |-> c.uri,
     prefLabel |-> c.pref_label,
     altLabel |-> c.alt_labels,
     definition |-> c.definition,
     notation |-> c.notation,
     broader |-> c.broader,
     narrower |-> c.narrower,
     related |-> c.related,
     academic |-> [prerequisite |-> c.prerequisite],
     file_path |-> c.file_path,
     content |-> c.content]

(***************************************************************************)
(* networkx.DiGraph as the builder uses it.  nodes is the key order of the *)
(* node dictionary, node[n] the attribute dictionary of n, adj[n] the      *)
(* successors of n in insertion order, each with its edge data.            *)
(***************************************************************************)
NoAttrs == [k \in {} |-> 0]

\* nx.DiGraph()
DiGraph == [nodes |-> <<>>, node |-> [n \in {} |-> NoAttrs], adj |-> [n \in {} |-> <<>>]]

\* dict.update
DictUpdate(d, new) ==
    [k \in DOMAIN d \cup DOMAIN new |-> IF k \in DOMAIN new THEN new[k] ELSE d[k]]

has_node(g, n) == n \in DOMAIN g.node

has_edge(g, u, v) ==
    u \in DOMAIN g.adj /\ \E i \in 1..Len(g.adj[u]) : g.adj[u][i].to = v

\* add_node with append semantics: a second entry for an id that is a node
add_node_append(g, n, attr) ==
    [nodes |-> Append(g.nodes, n),
     node |-> [m \in DOMAIN g.node \cup {n} |-> IF m = n THEN attr ELSE g.node[m]],
     adj |-> [m \in DOMAIN g.adj \cup {n} |->
                 IF m \in DOMAIN g.adj THEN g.adj[m] ELSE <<>>]]

\* G.add_node(n, **attr): a new node gets attr, an existing one is updated
add_node(g, n, attr) ==
    IF n \in DOMAIN g.node
    THEN [g EXCEPT !.node = [m \in DOMAIN g.node |->
                                IF m = n THEN DictUpdate(g.node[n], attr) ELSE g.node[m]]]
    ELSE [nodes |-> Append(g.nodes, n),
          node |-> [m \in DOMAIN g.node \cup {n} |-> IF m = n THEN attr ELSE g.node[m]],
          adj |-> [m \in DOMAIN g.adj \cup {n} |-> IF m = n THEN <<>> ELSE g.adj[m]]]

\* G.add_edge(u, v, relation_type=rt): missing endpoints are created without
\* attributes; the data of an existing edge u->v is updated in place
add_edge(g, u, v, rt) ==
    LET g1 == IF u \in DOMAIN g.node THEN g ELSE add_node(g, u, NoAttrs)
        g2 == IF v \in DOMAIN g1.node THEN g1 ELSE add_node(g1, v, NoAttrs)
        old == g2.adj[u]
        new == IF \E i \in 1..Len(old) : old[i].to = v
               THEN [i \in 1..Len(old) |->
                        IF old[i].to = v THEN [old[i] EXCEPT !.relation_type = rt]
                        ELSE old[i]]
               ELSE Append(old, [to |-> v, relation_type |-> rt])
    IN [g2 EXCEPT !.adj = [m \in DOMAIN g2.adj |-> IF m = u THEN new ELSE g2.adj[m]]]

\* G.in_edges(n) followed by G.out_edges(n), as sets of pairs
in_edges(g, n) ==
    {<<u, n>> : u \in {m \in DOMAIN g.adj : \E i \in 1..Len(g.adj[m]) : g.adj[m][i].to = n}}

out_edges(g, n) == {<<n, g.adj[n][i].to>> : i \in 1..Len(g.adj[n])}

\* G.remove_edges_from(ebunch): edges that are absent are skipped
remove_edges_from(g, ebunch) ==
    [g EXCEPT !.adj = [m \in DOMAIN g.adj |->
        LET keep(e) == <<m, e.to>> \notin ebunch IN SelectSeq(g.adj[m], keep)]]

\* remove_node that forgets the edges into n
remove_node_out_edges_only(g, n) ==
    LET rest == DOMAIN g.node \ {n}
        notN(m) == m # n
    IN [nodes |-> SelectSeq(g.nodes, notN),
        node |-> [m \in rest |-> g.node[m]],
        adj |-> [m \in rest |-> g.adj[m]]]

\* G.remove_node(n): the node, its attributes and every edge at it
remove_node(g, n) ==
    LET rest == DOMAIN g.node \ {n}
        notN(m) == m # n
        notToN(e) == e.to # n
    IN [nodes |-> SelectSeq(g.nodes, notN),
        node |-> [m \in rest |-> g.node[m]],
        adj |-> [m \in rest |-> SelectSeq(g.adj[m], notToN)]]

\* the edges of g as triples <<source, target, relation_type>>
Edges(g) ==
    UNION {{<<n, g.adj[n][i].to, g.adj[n][i].relation_type>> : i \in 1..Len(g.adj[n])} :
              n \in DOMAIN g.adj}

EdgePairs(g) == {<<e[1], e[2]>> : e \in Edges(g)}

(***************************************************************************)
(* KnowledgeGraphBuilder.                                                  *)
(***************************************************************************)
\* _add_concept_node
add_concept_node(g, concept) == add_node(g, concept.concept_id, to_dict(concept))

\* the broader pass without the has_node test
add_broader_relation_unchecked(g, concept, broader_id) ==
    add_edge(add_edge(g, concept.concept_id, broader_id, "broader"),
             broader_id, concept.concept_id, "narrower")

\* one pass of the loop over concept.broader
add_broader_relation(g, concept, broader_id) ==
    IF has_node(g, broader_id)
    THEN add_edge(add_edge(g, concept.concept_id, broader_id, "broader"),
                  broader_id, concept.concept_id, "narrower")
    ELSE g

\* one pass of the loop over concept.narrower
add_narrower_relation(g, concept, narrower_id) ==
    IF has_node(g, narrower_id)
    THEN LET g1 == IF ~has_edge(g, concept.concept_id, narrower_id)
                   THEN add_edge(g, concept.concept_id, narrower_id, "narrower")
                   ELSE g
         IN IF ~has_edge(g1, narrower_id, concept.concept_id)
            THEN add_edge(g1, narrower_id, concept.concept_id, "broader")
            ELSE g1
    ELSE g

\* one pass of the loop over concept.related
add_related_relation(g, concept, related_id) ==
    IF has_node(g, related_id)
    THEN add_edge(add_edge(g, concept.concept_id, related_id, "related"),
                  related_id, concept.concept_id, "related")
    ELSE g

\* the prerequisite pass without the has_node test
add_prerequisite_relation_unchecked(g, concept, prereq_id) ==
    add_edge(g, concept.concept_id, prereq_id, "prerequisite")

\* one pass of the loop over concept.prerequisite
add_prerequisite_relation(g, concept, prereq_id) ==
    IF has_node(g, prereq_id)
    THEN add_edge(g, concept.concept_id, prereq_id, "prerequisite")
    ELSE g

\* the four loops of _add_concept_relations, each over one relation list
RECURSIVE add_relations_of(_, _, _, _)
add_relations_of(g, concept, relation_type, ids) ==
    IF ids = <<>> THEN g
    ELSE LET id == Head(ids)
             g1 == CASE relation_type = "broader" -> add_broader_relation(g, concept, id)
                     [] relation_type = "narrower" -> add_narrower_relation(g, concept, id)
                     [] relation_type = "related" -> add_related_relation(g, concept, id)
                     [] OTHER -> add_prerequisite_relation(g, concept, id)
         IN add_relations_of(g1, concept, relation_type, Tail(ids))

\* _add_concept_relations: broader, then narrower, then related, then prerequisite
add_concept_relations(g, concept) ==
    LET g1 == add_relations_of(g, concept, "broader", concept.broader)
        g2 == add_relations_of(g1, concept, "narrower", concept.narrower)
        g3 == add_relations_of(g2, concept, "related", concept.related)
    IN add_relations_of(g3, concept, "prerequisite", concept.prerequisite)

\* the first loop of build_graph
RECURSIVE add_all_nodes(_, _)
add_all_nodes(g, concepts) ==
    IF concepts = <<>> THEN g
    ELSE add_all_nodes(add_concept_node(g, Head(concepts)), Tail(concepts))

\* the second loop of build_graph
RECURSIVE add_all_relations(_, _)
add_all_relations(g, concepts) ==
    IF concepts = <<>> THEN g
    ELSE add_all_relations(add_concept_relations(g, Head(concepts)), Tail(concepts))

\* build_graph: the builder's graph after the call
build_graph(g, concepts) == add_all_relations(add_all_nodes(g, concepts), concepts)

\* update_concept that keeps the old edges of the concept
update_concept_keeping_edges(g, concept) ==
    add_concept_relations(add_concept_node(g, concept), concept)

\* update_concept
update_concept(g, concept) ==
    LET x == concept.concept_id
        g1 == IF has_node(g, x)
              THEN remove_edges_from(g, in_edges(g, x) \cup out_edges(g, x))
              ELSE g
    IN add_concept_relations(add_concept_node(g1, concept), concept)

\* remove_concept
remove_concept(g, concept_id) ==
    IF has_node(g, concept_id) THEN remove_node(g, concept_id) ELSE g

(***************************************************************************)
(* Texts.  A text is a sequence of characters, so that lower-casing and    *)
(* containment are computed; Lower is str.lower over the characters of the *)
(* model.                                                                  *)
(***************************************************************************)
LowerChar(ch) ==
    CASE ch = "R" -> "r" [] ch = "X" -> "x" [] ch = "N" -> "n"
      [] ch = "A" -> "a" [] ch = "B" -> "b" [] ch = "C" -> "c"
      [] OTHER -> ch

\* str.lower
Lower(text) == [i \in 1..Len(text) |-> LowerChar(text[i])]

\* needle in text
Contains(needle, text) ==
    \E k \in 0..Len(text) :
        /\ k + Len(needle) <= Len(text)
        /\ SubSeq(text, k + 1, k + Len(needle)) = needle

\* the truth value of an optional text: None and "" are false
Truthy(text) == text # None /\ text # <<>>

(***************************************************************************)
(* GraphIndexer.  An index is a dictionary; relation_index[rt][source] is  *)
(* the list of targets of source's rt edges.                               *)
(***************************************************************************)
EmptyDict == [k \in {} |-> <<>>]

\* d.setdefault(k, v): the first value given to a key stays
PutAbsent(d, k, v) ==
    IF k \in DOMAIN d THEN d ELSE [x \in DOMAIN d \cup {k} |-> IF x = k THEN v ELSE d[x]]

\* d[k] = v
Put(d, k, v) == [x \in DOMAIN d \cup {k} |-> IF x = k THEN v ELSE d[x]]

\* d.get(k, default)
Get(d, k, default) == IF k \in DOMAIN d THEN d[k] ELSE default

\* GraphIndexer.__init__ before _build_indexes: four empty indexes
NoIndexes ==
    [label_index |-> EmptyDict, alt_label_index |-> EmptyDict,
     notation_index |-> EmptyDict, relation_index |-> EmptyDict]

\* graph.edges(data=True): node by node in node order, each node's edges in
\* insertion order
RECURSIVE edges_from(_, _)
edges_from(g, nodes) ==
    IF nodes = <<>> THEN <<>>
    ELSE LET source == Head(nodes)
         IN [i \in 1..Len(g.adj[source]) |->
                <<source, g.adj[source][i].to,
                  [relation_type |-> g.adj[source][i].relation_type]>>]
            \o edges_from(g, Tail(nodes))

\* graph.edges(data=True) read from its end
edges_newest_first(g) ==
    LET es == edges_from(g, g.nodes) IN [i \in 1..Len(es) |-> es[Len(es) + 1 - i]]

edges(g) == edges_from(g, g.nodes)

\* the alt label loop of _build_indexes for one node
RECURSIVE index_alt_labels(_, _, _)
index_alt_labels(alt_label_index, alt_labels, node_id) ==
    IF alt_labels = <<>> THEN alt_label_index
    ELSE index_alt_labels(
            IF Head(alt_labels) # <<>>
            THEN Put(alt_label_index, Lower(Head(alt_labels)), node_id)
            ELSE alt_label_index,
            Tail(alt_labels), node_id)

\* _build_indexes, the loop over the nodes: it writes into the indexes as
\* they are
RECURSIVE index_nodes(_, _, _)
index_nodes(indexes, g, nodes) ==
    IF nodes = <<>> THEN indexes
    ELSE LET node_id == Head(nodes)
             node_data == g.node[node_id]
             pref_label == Get(node_data, "prefLabel", <<>>)
             alt_labels == Get(node_data, "altLabel", <<>>)
             notation == Get(node_data, "notation", None)
         IN index_nodes(
                [indexes EXCEPT
                    !.label_index =
                        IF Truthy(pref_label) THEN Put(@, Lower(pref_label), node_id) ELSE @,
                    !.alt_label_index = index_alt_labels(@, alt_labels, node_id),
                    !.notation_index =
                        IF Truthy(notation) THEN Put(@, notation, node_id) ELSE @],
                g, Tail(nodes))

\* _build_relation_index, the loop over the edges
RECURSIVE index_edges(_, _)
index_edges(relation_index, es) ==
    IF es = <<>> THEN relation_index
    ELSE LET source == Head(es)[1]
             target == Head(es)[2]
             relation_type == Get(Head(es)[3], "relation_type", None)
         IN index_edges(
                IF relation_type \in DOMAIN relation_index
                THEN [relation_index EXCEPT ![relation_type] =
                        Put(@, source, Append(Get(@, source, <<>>), target))]
                ELSE relation_index,
                Tail(es))

\* _build_relation_index: a new dictionary with the four relation types
build_relation_index(g) ==
    index_edges([relation_type \in RelationTypes |-> EmptyDict], edges(g))

\* _build_indexes
build_indexes(indexes, g) ==
    [index_nodes(indexes, g, g.nodes) EXCEPT !.relation_index = build_relation_index(g)]

\* GraphIndexer(graph)
GraphIndexer(g) == build_indexes(NoIndexes, g)

\* rebuild_indexes that leaves the label indexes as they are
rebuild_indexes_without_clear(indexes, g) ==
    build_indexes([indexes EXCEPT !.relation_index = EmptyDict], g)

\* rebuild_indexes: clear the four indexes, then _build_indexes
rebuild_indexes(indexes, g) ==
    build_indexes(
        [indexes EXCEPT !.label_index = EmptyDict, !.alt_label_index = EmptyDict,
                        !.notation_index = EmptyDict, !.relation_index = EmptyDict],
        g)

\* get_related_concepts that follows every relation type
get_related_concepts_of_any_type(indexes, concept_id, relation_type) ==
    IF relation_type \notin DOMAIN indexes.relation_index THEN <<>>
    ELSE Get(indexes.relation_index["broader"], concept_id, <<>>)
         \o Get(indexes.relation_index["narrower"], concept_id, <<>>)
         \o Get(indexes.relation_index["related"], concept_id, <<>>)
         \o Get(indexes.relation_index["prerequisite"], concept_id, <<>>)

\* get_related_concepts
get_related_concepts(indexes, concept_id, relation_type) ==
    IF relation_type \notin DOMAIN indexes.relation_index THEN <<>>
    ELSE Get(indexes.relation_index[relation_type], concept_id, <<>>)

\* search_by_text, the alt label loop: 5 for every alt label the query is in
RECURSIVE alt_label_score(_, _)
alt_label_score(alt_labels, query_lower) ==
    IF alt_labels = <<>> THEN 0
    ELSE (IF Contains(query_lower, Lower(Head(alt_labels))) THEN 5 ELSE 0)
         + alt_label_score(Tail(alt_labels), query_lower)

\* the score without the bonus of an exact match
score_without_exact_bonus(node_data, query_lower) ==
    LET pref_label == Lower(Get(node_data, "prefLabel", <<>>))
        definition == Get(node_data, "definition", <<>>)
    IN (IF Contains(query_lower, pref_label) THEN 10 ELSE 0)
       + alt_label_score(Get(node_data, "altLabel", <<>>), query_lower)
       + (IF Truthy(definition) /\ Contains(query_lower, Lower(definition)) THEN 3 ELSE 0)

\* search_by_text, the score of one node
score(node_data, query_lower) ==
    LET pref_label == Lower(Get(node_data, "prefLabel", <<>>))
        definition == Get(node_data, "definition", <<>>)
    IN (IF Contains(query_lower, pref_label)
        THEN 10 + (IF pref_label = query_lower THEN 20 ELSE 0)
        ELSE 0)
       + alt_label_score(Get(node_data, "altLabel", <<>>), query_lower)
       + (IF Truthy(definition) /\ Contains(query_lower, Lower(definition)) THEN 3 ELSE 0)

\* search_by_text, the loop over the nodes: the pairs (node_id, score) with a
\* positive score
RECURSIVE matches_of(_, _, _)
matches_of(g, nodes, query_lower) ==
    IF nodes = <<>> THEN <<>>
    ELSE (IF score(g.node[Head(nodes)], query_lower) > 0
          THEN << <<Head(nodes), score(g.node[Head(nodes)], query_lower)>> >>
          ELSE <<>>)
         \o matches_of(g, Tail(nodes), query_lower)

\* a sort by ascending score, reversed: equal scores come out in reverse
RECURSIVE sort_ascending_reversed(_)
sort_ascending_reversed(matches) ==
    IF matches = <<>> THEN <<>>
    ELSE LET first == Head(matches)
             higher(m) == m[2] > first[2]
             notHigher(m) == m[2] <= first[2]
             rest == sort_ascending_reversed(Tail(matches))
         IN SelectSeq(rest, higher) \o SelectSeq(rest, notHigher) \o <<first>>

\* matches.sort(key=score, reverse=True): descending, and stable
RECURSIVE sort_by_score(_)
sort_by_score(matches) ==
    IF matches = <<>> THEN <<>>
    ELSE LET last_match == matches[Len(matches)]
             notLower(m) == m[2] >= last_match[2]
             lower(m) == m[2] < last_match[2]
             sorted == sort_by_score(SubSeq(matches, 1, Len(matches) - 1))
         IN SelectSeq(sorted, notLower) \o <<last_match>> \o SelectSeq(sorted, lower)

\* s[:limit]
Slice(s, limit) ==
    IF limit >= 0 THEN SubSeq(s, 1, IF limit < Len(s) THEN limit ELSE Len(s))
    ELSE SubSeq(s, 1, IF Len(s) + limit > 0 THEN Len(s) + limit ELSE 0)

\* search_by_text
search_by_text(g, query, limit) ==
    LET sorted == sort_by_score(matches_of(g, g.nodes, Lower(query)))
        top == Slice(sorted, limit)
    IN [i \in 1..Len(top) |-> top[i][1]]

(***************************************************************************)
(* GraphQueryEngine over the graph and the indexes.                        *)
(***************************************************************************)
\* get_concept: the attributes of a node, None for an id that is no node
get_concept(g, concept_id) ==
    IF has_node(g, concept_id) THEN g.node[concept_id] ELSE None

\* the truth value of get_concept's result: false for None and for a node
\* without attributes
found(g, concept_id) == has_node(g, concept_id) /\ DOMAIN g.node[concept_id] # {}

\* expand_context, the loop over related_ids for one dequeued concept and
\* one relation type; q holds the engine and the arguments, t the traversal
\* expand_context that marks no concept as visited
visited_kept(t, related_id) == t

\* expand_context that enqueues every concept it marks visited, a node or not
visited_add_enqueued(t, related_id) ==
    [t EXCEPT !.visited = @ \cup {related_id},
              !.queue = Append(@, <<related_id, 1, None>>)]

\* visited.add(related_id)
visited_add(t, related_id) == [t EXCEPT !.visited = @ \cup {related_id}]

RECURSIVE visit_related(_, _, _, _, _)
visit_related(q, t, related_ids, depth, relation_type) ==
    IF related_ids = <<>> THEN t
    ELSE LET related_id == Head(related_ids)
             related_concept == get_concept(q.graph, related_id)
             concept_summary ==
                [id |-> related_id,
                 prefLabel |-> Get(related_concept, "prefLabel", <<>>),
                 definition |-> Get(related_concept, "definition", None)]
             note ==
                [id |-> related_id,
                 label |-> Get(related_concept, "prefLabel", <<>>),
                 content |-> Get(related_concept, "content", <<>>),
                 file_path |-> Get(related_concept, "file_path", <<>>)]
             seen == visited_add(t, related_id)
             recorded ==
                [seen EXCEPT
                    !.direct_relations =
                        IF depth = 0
                        THEN [@ EXCEPT ![relation_type] = Append(@, concept_summary)]
                        ELSE @,
                    !.transitive_relations =
                        IF depth = 0
                        THEN @
                        ELSE [@ EXCEPT ![relation_type] = Append(@, concept_summary)],
                    !.context_notes = IF q.include_content THEN Append(@, note) ELSE @,
                    !.queue = Append(@, <<related_id, depth + 1, relation_type>>)]
         IN visit_related(q,
                IF related_id \in t.visited THEN t
                ELSE IF ~found(q.graph, related_id) THEN seen
                ELSE recorded,
                Tail(related_ids), depth, relation_type)

\* expand_context that follows the first of the relation types only
explore_first_type(q, t, current_id, depth, relation_types) ==
    IF relation_types = <<>> THEN t
    ELSE visit_related(q, t,
            get_related_concepts(q.indexer, current_id, Head(relation_types)),
            depth, Head(relation_types))

\* expand_context, the loop over relation_types for one dequeued concept
RECURSIVE explore(_, _, _, _, _)
explore(q, t, current_id, depth, relation_types) ==
    IF relation_types = <<>> THEN t
    ELSE explore(q,
            visit_related(q, t,
                get_related_concepts(q.indexer, current_id, Head(relation_types)),
                depth, Head(relation_types)),
            current_id, depth, Tail(relation_types))

\* expand_context with a stack for its queue: the concept found last is
\* explored first
RECURSIVE traverse_newest_first(_, _)
traverse_newest_first(q, t) ==
    IF t.queue = <<>> THEN t
    ELSE LET current_id == t.queue[Len(t.queue)][1]
             depth == t.queue[Len(t.queue)][2]
             popped == [t EXCEPT !.queue = SubSeq(@, 1, Len(@) - 1)]
         IN traverse_newest_first(q,
                IF depth >= q.max_depth THEN popped
                ELSE explore(q, popped, current_id, depth, q.relation_types))

\* expand_context, one turn of the loop over the queue
dequeue(q, t) ==
    LET current_id == Head(t.queue)[1]
        depth == Head(t.queue)[2]
        popped == [t EXCEPT !.queue = Tail(@)]
    IN IF depth >= q.max_depth THEN popped
       ELSE explore(q, popped, current_id, depth, q.relation_types)

\* expand_context, the loop over the queue
RECURSIVE traverse(_, _)
traverse(q, t) == IF t.queue = <<>> THEN t ELSE traverse(q, dequeue(q, t))

\* expand_context, the traversal before the loop
traversal(concept_id, relation_types) ==
    [visited |-> {concept_id},
     direct_relations |-> [rt \in SeqToSet(relation_types) |-> <<>>],
     transitive_relations |-> [rt \in SeqToSet(relation_types) |-> <<>>],
     context_notes |-> <<>>,
     queue |-> << <<concept_id, 0, None>> >>]

\* expand_context, the response built after the loop
response(g, concept_id, t, include_content) ==
    LET focus_concept == get_concept(g, concept_id)
        focus ==
            [id |-> concept_id,
             uri |-> Get(focus_concept, "uri", <<>>),
             prefLabel |-> Get(focus_concept, "prefLabel", <<>>),
             definition |-> Get(focus_concept, "definition", None),
             file_path |-> Get(focus_concept, "file_path", <<>>)]
    IN IF include_content
       THEN [focus_concept |->
                [id |-> focus.id, uri |-> focus.uri, prefLabel |-> focus.prefLabel,
                 definition |-> focus.definition, file_path |-> focus.file_path,
                 content |-> Get(focus_concept, "content", <<>>)],
             direct_relations |-> t.direct_relations,
             transitive_relations |-> t.transitive_relations,
             context_notes |-> t.context_notes]
       ELSE [focus_concept |-> focus,
             direct_relations |-> t.direct_relations,
             transitive_relations |-> t.transitive_relations]

\* relation_types when the caller gives none
DefaultRelationTypes == <<"broader", "narrower", "related">>

\* expand_context that gathers and returns the notes whatever include_content
expand_context_with_notes(g, indexes, concept_id, relation_types, max_depth, include_content) ==
    IF ~found(g, concept_id) THEN [error |-> <<"Concept not found", concept_id>>]
    ELSE LET focus_concept == get_concept(g, concept_id)
             q == [graph |-> g, indexer |-> indexes, relation_types |-> relation_types,
                   max_depth |-> max_depth, include_content |-> TRUE]
             t == traverse(q,
                    [visited |-> {concept_id},
                     direct_relations |-> [rt \in SeqToSet(relation_types) |-> <<>>],
                     transitive_relations |-> [rt \in SeqToSet(relation_types) |-> <<>>],
                     context_notes |-> <<>>,
                     queue |-> << <<concept_id, 0, None>> >>])
         IN [focus_concept |->
                [id |-> concept_id,
                 uri |-> Get(focus_concept, "uri", <<>>),
                 prefLabel |-> Get(focus_concept, "prefLabel", <<>>),
                 definition |-> Get(focus_concept, "definition", None),
                 file_path |-> Get(focus_concept, "file_path", <<>>),
                 content |-> Get(focus_concept, "content", <<>>)],
             direct_relations |-> t.direct_relations,
             transitive_relations |-> t.transitive_relations,
             context_notes |-> t.context_notes]

\* expand_context
expand_context(g, indexes, concept_id, relation_types, max_depth, include_content) ==
    IF ~found(g, concept_id) THEN [error |-> <<"Concept not found", concept_id>>]
    ELSE LET q == [graph |-> g, indexer |-> indexes, relation_types |-> relation_types,
                   max_depth |-> max_depth, include_content |-> include_content]
         IN response(g, concept_id, traverse(q, traversal(concept_id, relation_types)),
                     include_content)

\* the directed graph taken for its undirected form: successors only
successors_only(g) ==
    [n \in DOMAIN g.node |-> {m \in DOMAIN g.node : <<n, m>> \in EdgePairs(g)}]

\* graph.to_undirected(): the neighbours of each node, by edges either way
to_undirected(g) ==
    [n \in DOMAIN g.node |->
        {m \in DOMAIN g.node : <<n, m>> \in EdgePairs(g) \/ <<m, n>> \in EdgePairs(g)}]

\* the paths of G from source with k edges that visit no node twice
RECURSIVE paths_from(_, _, _)
paths_from(G, source, k) ==
    IF k = 0 THEN {<<source>>}
    ELSE UNION {{Append(path, m) : m \in G[path[Len(path)]] \ SeqToSet(path)} :
                    path \in paths_from(G, source, k - 1)}

\* nx.shortest_path(G, source, target): networkx returns one path with the
\* fewest edges, here the set of them all; none stands for NetworkXNoPath
shortest_path(G, source, target) ==
    LET reaching(k) == {path \in paths_from(G, source, k) : path[Len(path)] = target}
        lengths == {k \in 0..(Cardinality(DOMAIN G) - 1) : reaching(k) # {}}
    IN IF lengths = {} THEN {}
       ELSE reaching(CHOOSE k \in lengths : \A k2 \in lengths : k <= k2)

\* get_concept_path, the loop over the path
RECURSIVE path_concepts(_, _)
path_concepts(g, path) ==
    IF path = <<>> THEN <<>>
    ELSE (IF found(g, Head(path))
          THEN <<[id |-> Head(path),
                  prefLabel |-> Get(get_concept(g, Head(path)), "prefLabel", <<>>)]>>
          ELSE <<>>)
         \o path_concepts(g, Tail(path))

\* get_concept_path that leaves the test of to_concept to networkx, whose
\* NodeNotFound it does not catch
get_concept_path_unchecked_target(g, from_concept, to_concept) ==
    IF ~has_node(g, from_concept)
    THEN {[error |-> <<"Concept not found", from_concept>>]}
    ELSE IF ~has_node(g, to_concept)
    THEN {[raised |-> "NodeNotFound"]}
    ELSE LET paths == shortest_path(to_undirected(g), from_concept, to_concept)
         IN IF paths = {}
            THEN {[from |-> from_concept, to |-> to_concept, path |-> None,
                   message |-> "No path found between concepts"]}
            ELSE {[from |-> from_concept, to |-> to_concept,
                   length |-> Len(path) - 1, path |-> path_concepts(g, path)] :
                     path \in paths}

\* get_concept_path: the results it can return, one for each path networkx
\* can return
get_concept_path(g, from_concept, to_concept) ==
    IF ~has_node(g, from_concept)
    THEN {[error |-> <<"Concept not found", from_concept>>]}
    ELSE IF ~has_node(g, to_concept)
    THEN {[error |-> <<"Concept not found", to_concept>>]}
    ELSE LET paths == shortest_path(to_undirected(g), from_concept, to_concept)
         IN IF paths = {}
            THEN {[from |-> from_concept, to |-> to_concept, path |-> None,
                   message |-> "No path found between concepts"]}
            ELSE {[from |-> from_concept, to |-> to_concept,
                   length |-> Len(path) - 1, path |-> path_concepts(g, path)] :
                     path \in paths}

\* search_concepts, the loop over matching_ids
RECURSIVE hydrate(_, _)
hydrate(g, matching_ids) ==
    IF matching_ids = <<>> THEN <<>>
    ELSE LET concept_id == Head(matching_ids)
             concept == get_concept(g, concept_id)
         IN (IF found(g, concept_id)
             THEN <<[id |-> concept_id,
                     uri |-> Get(concept, "uri", <<>>),
                     prefLabel |-> Get(concept, "prefLabel", <<>>),
                     definition |-> Get(concept, "definition", None),
                     file_path |-> Get(concept, "file_path", <<>>)]>>
             ELSE <<>>)
            \o hydrate(g, Tail(matching_ids))

\* search_concepts
search_concepts(g, query, limit) ==
    LET results == hydrate(g, search_by_text(g, query, limit))
    IN [query |-> query, count |-> Len(results), results |-> results]

(***************************************************************************)
(* The MCP tools (mcp/tools.py) and their input validation                 *)
(* (security/validation.py).  A validator returns [value |-> v] or         *)
(* [raised |-> message]; a tool turns every exception into an error        *)
(* result.                                                                 *)
(***************************************************************************)
\* settings.security
max_context_depth == 3

max_concept_content_length == 50000

\* the characters of a concept id a caller sends, and the concept id a text
\* spells; the concept ids of the model are single characters, and "" stands
\* for a longer text, which spells none of them
Chars(concept_id) ==
    CASE concept_id = "a b" -> <<"a", " ", "b">> [] OTHER -> <<concept_id>>

Id(text) == IF Len(text) = 1 THEN text[1] ELSE ""

\* PATH_TRAVERSAL_PATTERNS, searched for without regard to case
PathTraversalPatterns ==
    {<<".", ".", "/">>, <<".", ".">>, <<"~", "/">>,
     <<"/", "e", "t", "c", "/">>, <<"/", "p", "r", "o", "c", "/">>}

\* the characters of the model that [a-zA-Z0-9_-] matches
WordChars ==
    {"a", "b", "c", "d", "e", "n", "o", "p", "r", "t", "x", "z",
     "A", "B", "C", "N", "R", "X", "0", "1", "_", "-"}

\* InputSanitizer.sanitize_concept_id
sanitize_concept_id(concept_id) ==
    IF \E pattern \in PathTraversalPatterns : Contains(pattern, Lower(concept_id))
    THEN [raised |-> "Invalid concept ID"]
    ELSE IF concept_id = <<>> \/ \E i \in 1..Len(concept_id) : concept_id[i] \notin WordChars
    THEN [raised |-> "Concept ID contains invalid characters"]
    ELSE [value |-> Lower(concept_id)]

\* InputSanitizer.validate_depth
validate_depth(depth) ==
    IF depth < 0 THEN [raised |-> "Depth must be non-negative"]
    ELSE IF depth > max_context_depth THEN [value |-> max_context_depth]
    ELSE [value |-> depth]

\* InputSanitizer.truncate_content
truncate_content(content) ==
    IF Len(content) > max_concept_content_length
    THEN SubSeq(content, 1, max_concept_content_length) \o <<"[... content truncated ...]">>
    ELSE content

\* the tool expand_context; relation_types is None when the caller gives none
tool_expand_context(g, indexes, concept_id, relation_types, max_depth, include_content) ==
    LET id == sanitize_concept_id(Chars(concept_id))
        depth == validate_depth(max_depth)
    IN IF "raised" \in DOMAIN id THEN [error |-> id.raised]
       ELSE IF "raised" \in DOMAIN depth THEN [error |-> depth.raised]
       ELSE LET result ==
                    expand_context(g, indexes, Id(id.value),
                        IF relation_types = None THEN DefaultRelationTypes
                        ELSE relation_types,
                        depth.value, include_content)
            IN IF include_content /\ "context_notes" \in DOMAIN result
               THEN [result EXCEPT !.context_notes =
                        [i \in 1..Len(@) |->
                            [@[i] EXCEPT !.content = truncate_content(@)]]]
               ELSE result

(***************************************************************************)
(* The builder's life.  The server constructs one builder and calls        *)
(* build_graph on it once, with the records extracted from the vault, and  *)
(* constructs the indexer over the graph built; update_concept and         *)
(* remove_concept may follow.  last is the most recent call: its name, the *)
(* records it was given, the id it was about, the number of update/remove  *)
(* calls so far and the graph it started from.  indexer holds the four     *)
(* indexes, indexed is the graph as it was when they were last built, and  *)
(* answer is what the most recent call returned if it was a query.         *)
(***************************************************************************)
\* the records of update_concept and of the builder's life: at most one
\* relation entry each
Concepts == ConceptsWith(Ids, Labels, 1)

\* the records of a build on a new builder alone: at most two relation
\* entries each, in different lists
BuildConcepts == ConceptsWith(Ids, Labels, 2)

Call(op, concepts, concept_id, calls, before) ==
    [op |-> op, concepts |-> concepts, concept_id |-> concept_id,
     calls |-> calls, before |-> before]

\* OntologyMCPServer.__init__: a new builder, and the records extracted from
\* the vault (a list of at most MaxRecords of the given records)
NoAnswer == [tool |-> "none", arguments |-> EmptyDict, result |-> EmptyDict]

New(records) ==
    /\ graph = DiGraph
    /\ indexer = NoIndexes
    /\ indexed = DiGraph
    /\ answer = NoAnswer
    /\ \E n \in 0..MaxRecords : \E concepts \in [1..n -> records] :
        last = Call("new", concepts, "", 0, DiGraph)

\* the lists of records with one record for each id of the list ids, in
\* that order
RECURSIVE Vaults(_, _)
Vaults(ids, records) ==
    IF ids = <<>> THEN {<<>>}
    ELSE {<<concept>> \o rest :
            concept \in {r \in records : r.concept_id = Head(ids)},
            rest \in Vaults(Tail(ids), records)}

\* OntologyMCPServer.__init__ over such a vault
NewVault(ids, records) ==
    /\ graph = DiGraph
    /\ indexer = NoIndexes
    /\ indexed = DiGraph
    /\ answer = NoAnswer
    /\ \E concepts \in Vaults(ids, records) : last = Call("new", concepts, "", 0, DiGraph)

Init == New(Concepts)

\* server._build_graph: build_graph on the builder just constructed, the one
\* place the program calls it, and GraphIndexer over the graph built; with no
\* records there is neither
BuildGraph ==
    /\ last.op = "new"
    /\ graph' = build_graph(graph, last.concepts)
    /\ last' = Call("build_graph", last.concepts, "", last.calls, graph)
    /\ IF last.concepts # <<>>
       THEN indexer' = GraphIndexer(graph') /\ indexed' = graph'
       ELSE UNCHANGED <<indexer, indexed>>
    /\ answer' = NoAnswer

\* update_concept that builds the server's indexes anew
UpdateReindexing(records) ==
    /\ last.calls < MaxCalls
    /\ \E concept \in records :
        /\ graph' = update_concept(graph, concept)
        /\ last' = Call("update_concept", <<concept>>, concept.concept_id,
                        last.calls + 1, graph)
        /\ answer' = NoAnswer
        /\ indexer' = IF indexer = NoIndexes THEN indexer ELSE GraphIndexer(graph')
        /\ UNCHANGED indexed

\* update_concept with one of the given records
Update(records) ==
    /\ last.calls < MaxCalls
    /\ \E concept \in records :
        /\ graph' = update_concept(graph, concept)
        /\ last' = Call("update_concept", <<concept>>, concept.concept_id,
                        last.calls + 1, graph)
        /\ answer' = NoAnswer
        /\ UNCHANGED <<indexer, indexed>>

RemoveConcept ==
    /\ last.calls < MaxCalls
    /\ \E concept_id \in Ids :
        /\ graph' = remove_concept(graph, concept_id)
        /\ last' = Call("remove_concept", <<>>, concept_id, last.calls + 1, graph)
        /\ answer' = NoAnswer
        /\ UNCHANGED <<indexer, indexed>>

UpdateConcept == Update(Concepts)

Next == BuildGraph \/ UpdateConcept \/ RemoveConcept

Spec == Init /\ [][Next]_vars

\* a build on a new builder alone, over the larger records
InitBuild == New(BuildConcepts)

NextBuild == BuildGraph

SpecBuild == InitBuild /\ [][NextBuild]_vars

(***************************************************************************)
(* The indexer's life: a vault of one record per id, records that differ   *)
(* in their texts as well; update_concept and remove_concept follow the    *)
(* build, and rebuild_indexes comes at any time after the indexer was      *)
(* constructed.                                                            *)
(***************************************************************************)
\* the texts of the records: labels, alternative labels, notations
IndexLabels == {<<"R">>, <<"x">>}

AltLabelLists == {<<>>, << <<"X">> >>}

Notations == {None, <<"N">>}

\* records without relations that differ in their texts, and the records of
\* the builder's life
IndexConcepts ==
    Described(Ids, IndexLabels, AltLabelLists, {None}, Notations, 0) \cup Concepts

\* the server has constructed its indexer
Indexing == indexer # NoIndexes

UpdateIndexed == Update(IndexConcepts)

RebuildIndexes ==
    /\ Indexing
    /\ indexer' = rebuild_indexes(indexer, graph)
    /\ indexed' = graph
    /\ last' = Call("rebuild_indexes", <<>>, "", last.calls, graph)
    /\ answer' = NoAnswer
    /\ UNCHANGED graph

InitIndex == NewVault(<<"a", "b">>, IndexConcepts)

NextIndex == BuildGraph \/ UpdateIndexed \/ RemoveConcept \/ RebuildIndexes

SpecIndex == InitIndex /\ [][NextIndex]_vars

(***************************************************************************)
(* What the claims speak of.                                               *)
(***************************************************************************)
Nodes(g) == DOMAIN g.node

\* the ids of the records of a list
RecordIds(concepts) == {concepts[i].concept_id : i \in 1..Len(concepts)}

\* the ids a record names in any of its relation lists
Named(c) ==
    SeqToSet(c.broader) \cup SeqToSet(c.narrower) \cup SeqToSet(c.related)
        \cup SeqToSet(c.prerequisite)

\* build_graph has run on the new builder
Built == last.op = "build_graph"

\* the relation list of a record for a relation type
RelationList(c, relation_type) ==
    CASE relation_type = "broader" -> c.broader
      [] relation_type = "narrower" -> c.narrower
      [] relation_type = "related" -> c.related
      [] OTHER -> c.prerequisite

\* the pairs <<A, B>> of different ids: a record of id A names the record id
\* B in its list of the given relation type
Declared(concepts, relation_type) ==
    UNION {{<<concepts[i].concept_id, b>> :
                b \in (RecordIds(concepts) \cap
                       SeqToSet(RelationList(concepts[i], relation_type)))
                          \ {concepts[i].concept_id}} :
              i \in 1..Len(concepts)}

\* C1: after build_graph(records), every record A with a record id B in
\* A.broader has the edge A->B of type broader and the edge B->A of type
\* narrower, whatever else the records declare about the pair.  Stated for
\* A # B, where it already fails.
C1_BroaderEdges ==
    Built =>
        \A d \in Declared(last.concepts, "broader") :
            /\ <<d[1], d[2], "broader">> \in Edges(graph)
            /\ <<d[2], d[1], "narrower">> \in Edges(graph)

\* C2: after build_graph(records), every record A with a record id B in
\* A.related has the edges A->B and B->A, both of type related.  Stated for
\* A # B, where it already fails.
C2_RelatedEdges ==
    Built =>
        \A d \in Declared(last.concepts, "related") :
            /\ <<d[1], d[2], "related">> \in Edges(graph)
            /\ <<d[2], d[1], "related">> \in Edges(graph)

\* some record of the list other than through A.prerequisite relates A and B
OtherwiseRelated(concepts, A, B) ==
    \E i \in 1..Len(concepts) :
        \/ /\ concepts[i].concept_id = A
           /\ B \in SeqToSet(concepts[i].broader) \cup SeqToSet(concepts[i].narrower)
                     \cup SeqToSet(concepts[i].related)
        \/ /\ concepts[i].concept_id = B
           /\ A \in Named(concepts[i])

\* C3: after build_graph(records), every record A with a record id B in
\* A.prerequisite has the edge A->B of type prerequisite, and there is no
\* edge B->A unless another declaration relates A and B.  Stated for A # B,
\* where it already fails.
C3_PrerequisiteEdges ==
    Built =>
        \A d \in Declared(last.concepts, "prerequisite") :
            /\ <<d[1], d[2], "prerequisite">> \in Edges(graph)
            /\ ~OtherwiseRelated(last.concepts, d[1], d[2])
                  => <<d[2], d[1]>> \notin EdgePairs(graph)

\* C4: after build_graph(records), every record A with a record id B in
\* A.narrower has the edge A->B of type narrower and the edge B->A of type
\* broader (the same pair a reciprocal broader declaration of B gives).
\* Stated for A # B, where it already fails.
C4_NarrowerEdges ==
    Built =>
        \A d \in Declared(last.concepts, "narrower") :
            /\ <<d[1], d[2], "narrower">> \in Edges(graph)
            /\ <<d[2], d[1], "broader">> \in Edges(graph)

\* C5: a relation entry naming an id that is no node yields no edge and no
\* placeholder node: after build_graph(records) on the new builder the nodes
\* are exactly the record ids, each with the attributes of a record of that
\* id, and every edge joins two record ids.
C5_UnknownIdDropped ==
    Built =>
        /\ Nodes(graph) = RecordIds(last.concepts)
        /\ SeqToSet(graph.nodes) = RecordIds(last.concepts)
        /\ \A n \in Nodes(graph) :
               \E i \in 1..Len(last.concepts) :
                   /\ last.concepts[i].concept_id = n
                   /\ graph.node[n] = to_dict(last.concepts[i])
        /\ \A e \in Edges(graph) :
               e[1] \in RecordIds(last.concepts) /\ e[2] \in RecordIds(last.concepts)

\* build_graph has run on records one of which names an id of no record,
\* next to a relation that did resolve
C5_Witness ==
    /\ Built
    /\ \E i \in 1..Len(last.concepts) :
           Named(last.concepts[i]) \ RecordIds(last.concepts) # {}
    /\ Edges(graph) # {}

\* the orderings of a list
Orderings(concepts) ==
    {[i \in 1..Len(concepts) |-> concepts[p[i]]] :
        p \in {q \in [1..Len(concepts) -> 1..Len(concepts)] :
                  \A i, j \in 1..Len(concepts) : i # j => q[i] # q[j]}}

\* C6: build_graph on a new builder gives the same nodes, edges and edge
\* relation types for every ordering of the same records.  Stated for records
\* of pairwise different ids, where it already fails.
C6_OrderIndependent ==
    (Built /\ Cardinality(RecordIds(last.concepts)) = Len(last.concepts)) =>
        \A other \in Orderings(last.concepts) :
            /\ Nodes(build_graph(DiGraph, other)) = Nodes(graph)
            /\ Edges(build_graph(DiGraph, other)) = Edges(graph)

NoRelations(concepts) == \A i \in 1..Len(concepts) : Named(concepts[i]) = {}

\* C10 as claimed: N records without relation entries give exactly N nodes
\* and no edge, for every list of N records.
C10_NNodesNoEdges ==
    (Built /\ NoRelations(last.concepts)) =>
        /\ Len(graph.nodes) = Len(last.concepts)
        /\ Cardinality(Nodes(graph)) = Len(last.concepts)
        /\ Edges(graph) = {}

\* C10 amended: records without relation entries give one node per distinct
\* concept_id among them (N nodes when the N ids are pairwise distinct) and
\* no edge.
C10_DistinctIdsNoEdges ==
    (Built /\ NoRelations(last.concepts)) =>
        /\ Len(graph.nodes) = Cardinality(RecordIds(last.concepts))
        /\ Nodes(graph) = RecordIds(last.concepts)
        /\ Edges(graph) = {}

\* build_graph has run on two records of different ids without relations
C10_Witness ==
    /\ Built
    /\ NoRelations(last.concepts)
    /\ Len(last.concepts) = 2
    /\ Cardinality(RecordIds(last.concepts)) = 2
    /\ Len(graph.nodes) = 2

\* the edges a record's own relation lists can give
Derived(c) ==
    LET x == c.concept_id
    IN UNION {{<<x, b, "broader">>, <<b, x, "narrower">>} : b \in SeqToSet(c.broader)}
       \cup UNION {{<<x, b, "narrower">>, <<b, x, "broader">>} : b \in SeqToSet(c.narrower)}
       \cup UNION {{<<x, b, "related">>, <<b, x, "related">>} : b \in SeqToSet(c.related)}
       \cup {<<x, b, "prerequisite">> : b \in SeqToSet(c.prerequisite)}

\* the edges of g with x as source or target
IncidentEdges(g, x) == {e \in Edges(g) : e[1] = x \/ e[2] = x}

\* the ids a node's stored attributes name in their relation lists
NamedByNode(g, n) ==
    SeqToSet(g.node[n].broader) \cup SeqToSet(g.node[n].narrower)
        \cup SeqToSet(g.node[n].related) \cup SeqToSet(g.node[n].academic.prerequisite)

\* C7: after update_concept(r) with r.concept_id = x, the attributes of node
\* x are exactly those of r, and every edge at x is one that r's own relation
\* lists give: an edge between x and B exists only if r names B.
C7_UpdateReplaces ==
    last.op = "update_concept" =>
        LET r == last.concepts[1]
            x == r.concept_id
        IN /\ x \in Nodes(graph)
           /\ graph.node[x] = to_dict(r)
           /\ IncidentEdges(graph, x) \subseteq Derived(r)
           /\ \A e \in IncidentEdges(graph, x) : {e[1], e[2]} \subseteq {x} \cup Named(r)

\* update_concept(r) has run on a node x that had an edge with another node B
\* whose stored lists name x, r does not name B, and the edge is gone
C7_Witness ==
    /\ last.op = "update_concept"
    /\ LET x == last.concept_id
       IN /\ x \in Nodes(last.before)
          /\ last.before.node[x] # graph.node[x]
          /\ \E B \in Nodes(graph) \ {x} :
                 /\ x \in NamedByNode(graph, B)
                 /\ <<B, x>> \in EdgePairs(last.before)
                 /\ B \notin Named(last.concepts[1])
                 /\ <<B, x>> \notin EdgePairs(graph)
                 /\ <<x, B>> \notin EdgePairs(graph)

\* C8: remove_concept(x) deletes node x and every edge with x as source or
\* target, leaves the other nodes, their attributes (relation lists naming x
\* included) and the edges not at x as they were, and does nothing when x is
\* no node.
C8_RemoveFrame ==
    last.op = "remove_concept" =>
        LET x == last.concept_id
            b == last.before
            notX(m) == m # x
            notToX(e) == e.to # x
        IN IF x \in Nodes(b)
           THEN /\ Nodes(graph) = Nodes(b) \ {x}
                /\ graph.nodes = SelectSeq(b.nodes, notX)
                /\ \A m \in Nodes(graph) : graph.node[m] = b.node[m]
                /\ DOMAIN graph.adj = Nodes(graph)
                /\ \A m \in Nodes(graph) : graph.adj[m] = SelectSeq(b.adj[m], notToX)
                /\ Edges(graph) = Edges(b) \ IncidentEdges(b, x)
           ELSE graph = b

\* remove_concept(x) has run on a node x with edges in both directions, and a
\* node whose stored lists name x remains
C8_Witness ==
    /\ last.op = "remove_concept"
    /\ LET x == last.concept_id
       IN /\ x \in Nodes(last.before)
          /\ \E B \in Nodes(graph) :
                 /\ x \in NamedByNode(graph, B)
                 /\ <<B, x>> \in EdgePairs(last.before)
                 /\ <<x, B>> \in EdgePairs(last.before)

\* C9: after update_concept and remove_concept calls, build_graph(R) on the
\* same builder leaves the nodes, edges and edge relation types that
\* build_graph(R) gives on a new builder (for every non-empty R).
C9_RebuildRestores ==
    last.op \in {"update_concept", "remove_concept"} =>
        \A n \in 1..MaxRecords : \A R \in [1..n -> Concepts] :
            /\ Nodes(build_graph(graph, R)) = Nodes(build_graph(DiGraph, R))
            /\ Edges(build_graph(graph, R)) = Edges(build_graph(DiGraph, R))

\* the server's indexer was rebuilt by the most recent call
Rebuilt == last.op = "rebuild_indexes"

(***************************************************************************)
(* Queries after mutations: the vault has one record per id, update_concept *)
(* and remove_concept follow the build, rebuild_indexes and expand_context  *)
(* come at any time.  A query is taken in a state no query was answered    *)
(* in: a query changes last and answer only, so a query after a query      *)
(* reaches no further state.                                               *)
(***************************************************************************)
Queries ==
    {"expand_context", "get_concept_path", "search_by_text", "search_concepts",
     "tool_expand_context"}

\* GraphQueryEngine.expand_context with arguments from the given sets
Expand(ids, type_lists, depths) ==
    /\ Indexing
    /\ last.op \notin Queries
    /\ \E concept_id \in ids, relation_types \in type_lists, max_depth \in depths,
          include_content \in BOOLEAN :
        /\ answer' =
            [tool |-> "expand_context",
             arguments |-> [concept_id |-> concept_id, relation_types |-> relation_types,
                            max_depth |-> max_depth, include_content |-> include_content],
             result |-> expand_context(graph, indexer, concept_id, relation_types,
                                       max_depth, include_content)]
        /\ last' = Call("expand_context", <<>>, concept_id, last.calls, graph)
    /\ UNCHANGED <<graph, indexer, indexed>>

\* the relation_types of the queries after mutations
StaleTypeLists == {DefaultRelationTypes, <<"prerequisite", "related">>}

ExpandStale == Expand(Ids, StaleTypeLists, 0..MaxDepth)

InitStale == NewVault(<<"a", "b">>, Concepts)

NextStale ==
    BuildGraph \/ UpdateConcept \/ RemoveConcept \/ RebuildIndexes \/ ExpandStale

SpecStale == InitStale /\ [][NextStale]_vars

(***************************************************************************)
(* Queries over a graph as built: a vault of three concepts, the indexes   *)
(* as the server constructed them.                                         *)
(***************************************************************************)
QueryIds == <<"a", "b", "c">>

QueryConcepts == ConceptsWith(SeqToSet(QueryIds), Labels, 1)

\* the relation_types of the queries: the default, another order, one type,
\* none, and a list with a name that is no relation type
QueryTypeLists ==
    {DefaultRelationTypes, <<"related", "broader">>, <<"prerequisite">>, <<>>,
     <<"synonym", "related">>}

ExpandQuery == Expand(SeqToSet(QueryIds), QueryTypeLists, (-1)..MaxDepth)

InitQuery == NewVault(QueryIds, QueryConcepts)

NextQuery == BuildGraph \/ ExpandQuery

SpecQuery == InitQuery /\ [][NextQuery]_vars

(***************************************************************************)
(* Traversals over a vault of four concepts with related and prerequisite  *)
(* entries, where a concept can be found from two concepts of one depth.   *)
(***************************************************************************)
TraversalIds == <<"a", "b", "c", "d">>

TraversalConcepts ==
    {concept \in ConceptsWith(SeqToSet(TraversalIds), Labels, 1) :
        concept.broader = <<>> /\ concept.narrower = <<>>}

TraversalTypeLists == {<<"prerequisite", "related">>, <<"related", "prerequisite">>}

ExpandTraversal == Expand(SeqToSet(TraversalIds), TraversalTypeLists, 1..MaxDepth)

InitTraversal == NewVault(TraversalIds, TraversalConcepts)

NextTraversal == BuildGraph \/ ExpandTraversal

SpecTraversal == InitTraversal /\ [][NextTraversal]_vars

(***************************************************************************)
(* Paths over the vault of four concepts; "z" is the id of no record.      *)
(***************************************************************************)
PathIds == SeqToSet(TraversalIds) \cup {"z"}

\* GraphQueryEngine.get_concept_path
GetConceptPath ==
    /\ Indexing
    /\ last.op \notin Queries
    /\ \E from_concept \in PathIds, to_concept \in PathIds :
        \E result \in get_concept_path(graph, from_concept, to_concept) :
            /\ answer' = [tool |-> "get_concept_path",
                          arguments |-> [from_concept |-> from_concept,
                                         to_concept |-> to_concept],
                          result |-> result]
            /\ last' = Call("get_concept_path", <<>>, from_concept, last.calls, graph)
    /\ UNCHANGED <<graph, indexer, indexed>>

NextPath == BuildGraph \/ GetConceptPath

SpecPath == InitTraversal /\ [][NextPath]_vars

(***************************************************************************)
(* Searches over a vault of three concepts without relations that differ   *)
(* in their texts.                                                         *)
(***************************************************************************)
SearchLabels == {<<"r">>, <<"R">>, <<"x", "r">>, <<"x">>}

SearchAltLabelLists == {<<>>, << <<"r">> >>}

SearchDefinitions == {None, <<"r", "x">>}

SearchConcepts ==
    Described(SeqToSet(QueryIds), SearchLabels, SearchAltLabelLists, SearchDefinitions,
              {None}, 0)

SearchQueries == {<<>>, <<"r">>, <<"R">>, <<"x">>}

\* GraphIndexer.search_by_text
SearchByText ==
    /\ Indexing
    /\ last.op \notin Queries
    /\ \E query \in SearchQueries, limit \in (-1)..MaxLimit :
        /\ answer' = [tool |-> "search_by_text",
                      arguments |-> [query |-> query, limit |-> limit],
                      result |-> search_by_text(graph, query, limit)]
        /\ last' = Call("search_by_text", <<>>, "", last.calls, graph)
    /\ UNCHANGED <<graph, indexer, indexed>>

\* GraphQueryEngine.search_concepts
SearchConceptsByText ==
    /\ Indexing
    /\ last.op \notin Queries
    /\ \E query \in SearchQueries, limit \in (-1)..MaxLimit :
        /\ answer' = [tool |-> "search_concepts",
                      arguments |-> [query |-> query, limit |-> limit],
                      result |-> search_concepts(graph, query, limit)]
        /\ last' = Call("search_concepts", <<>>, "", last.calls, graph)
    /\ UNCHANGED <<graph, indexer, indexed>>

InitSearch == NewVault(QueryIds, SearchConcepts)

NextSearch == BuildGraph \/ SearchByText \/ SearchConceptsByText

SpecSearch == InitSearch /\ [][NextSearch]_vars

(***************************************************************************)
(* Tool calls over the vault of three concepts.                            *)
(***************************************************************************)
ToolIds == {"a", "B", "a b"}

ToolTypeLists == {None, <<"related", "broader">>, <<"synonym", "related">>}

\* the tool expand_context
ExpandContextTool ==
    /\ Indexing
    /\ last.op \notin Queries
    /\ \E concept_id \in ToolIds, relation_types \in ToolTypeLists,
          max_depth \in (-1)..(MaxDepth + 2), include_content \in BOOLEAN :
        /\ answer' =
            [tool |-> "tool_expand_context",
             arguments |-> [concept_id |-> concept_id, relation_types |-> relation_types,
                            max_depth |-> max_depth, include_content |-> include_content],
             result |-> tool_expand_context(graph, indexer, concept_id, relation_types,
                                            max_depth, include_content)]
        /\ last' = Call("tool_expand_context", <<>>, concept_id, last.calls, graph)
    /\ UNCHANGED <<graph, indexer, indexed>>

NextTools == BuildGraph \/ ExpandContextTool

SpecTools == InitQuery /\ [][NextTools]_vars

\* the ids of a list of concept summaries
SummaryIds(summaries) == {summaries[i].id : i \in 1..Len(summaries)}

\* expand_context answered the most recent call
Expanded == last.op = "expand_context"

\* C11: after rebuild_indexes the four indexes are the ones a newly
\* constructed GraphIndexer computes for the graph, and a second
\* rebuild_indexes leaves them as they are (keys, values and list order).
C11_RebuildIdempotent ==
    Rebuilt =>
        /\ indexer = GraphIndexer(graph)
        /\ rebuild_indexes(indexer, graph) = indexer

\* a rebuild after a mutation, over a graph with entries in all four indexes
C11_Witness ==
    /\ Rebuilt
    /\ last.calls > 0
    /\ indexer.label_index # EmptyDict
    /\ indexer.alt_label_index # EmptyDict
    /\ indexer.notation_index # EmptyDict
    /\ \E relation_type \in RelationTypes :
        indexer.relation_index[relation_type] # EmptyDict

Fresh == indexer = GraphIndexer(graph)

\* the targets of the edges of g from x with relation type r
Targets(g, x, r) == {e[2] : e \in {d \in Edges(g) : d[1] = x /\ d[3] = r}}

\* C13: with fresh indexes, expand_context(x, relation_types, max_depth = 1)
\* lists under each requested r exactly the targets of x's r edges, and every
\* transitive list is empty.  Fails where x has an edge to itself: x is
\* visited from the start and never listed.
C13_DirectAreTargets ==
    Expanded /\ Fresh /\ "error" \notin DOMAIN answer.result
             /\ answer.arguments.max_depth = 1 =>
        \A r \in SeqToSet(answer.arguments.relation_types) :
            /\ SummaryIds(answer.result.direct_relations[r]) =
                    Targets(graph, answer.arguments.concept_id, r)
            /\ answer.result.transitive_relations[r] = <<>>

\* C13, amended: the targets other than x itself.
C13_DirectAreOtherTargets ==
    Expanded /\ Fresh /\ "error" \notin DOMAIN answer.result
             /\ answer.arguments.max_depth = 1 =>
        \A r \in SeqToSet(answer.arguments.relation_types) :
            /\ SummaryIds(answer.result.direct_relations[r]) =
                    Targets(graph, answer.arguments.concept_id, r)
                        \ {answer.arguments.concept_id}
            /\ answer.result.transitive_relations[r] = <<>>

\* a depth-1 expansion of a concept with a target that has a further
\* neighbour, which depth 1 leaves out
C13_Witness ==
    /\ Expanded /\ Fresh /\ "error" \notin DOMAIN answer.result
    /\ answer.arguments.max_depth = 1
    /\ \E r \in SeqToSet(answer.arguments.relation_types) :
        \E t \in SummaryIds(answer.result.direct_relations[r]) :
            \E e \in Edges(graph) :
                /\ e[1] = t
                /\ e[2] # answer.arguments.concept_id
                /\ e[3] \in SeqToSet(answer.arguments.relation_types)
                /\ \A r2 \in SeqToSet(answer.arguments.relation_types) :
                    e[2] \notin SummaryIds(answer.result.direct_relations[r2])

\* the concepts within d edges of x along edges of g of the given types
RECURSIVE Within(_, _, _, _)
Within(g, types, x, d) ==
    IF d = 0 THEN {x}
    ELSE LET near == Within(g, types, x, d - 1)
         IN near \cup {e[2] : e \in {f \in Edges(g) : f[1] \in near /\ f[3] \in types}}

\* the number of edges of a shortest such way from x to c
Depth(g, types, x, c) ==
    CHOOSE d \in 0..Cardinality(Nodes(g)) :
        /\ c \in Within(g, types, x, d)
        /\ d = 0 \/ c \notin Within(g, types, x, d - 1)

\* the lists of a result, as pairs of kind and relation type
ListsOf(result) ==
    ({"direct_relations"} \X DOMAIN result.direct_relations)
        \cup ({"transitive_relations"} \X DOMAIN result.transitive_relations)

ListAt(result, l) ==
    IF l[1] = "direct_relations" THEN result.direct_relations[l[2]]
    ELSE result.transitive_relations[l[2]]

\* the position of id in a list of ids or of notes, 0 for the focus concept
Position(notes, focus, id) ==
    IF id = focus THEN 0 ELSE CHOOSE i \in 1..Len(notes) : notes[i].id = id

\* C14: in an expand_context result no list names a concept twice, no two
\* lists name the same concept and none names the focus concept; and with
\* fresh indexes a concept c is listed under the relation type of the edge
\* p -> c of the first concept p in discovery order (the focus concept, then
\* the order of context_notes) that is explored (its depth is below
\* max_depth) and has an edge to c of a requested type.
C14_ListedOnceUnderFirst ==
    Expanded /\ "error" \notin DOMAIN answer.result =>
        LET result == answer.result
            x == answer.arguments.concept_id
            types == SeqToSet(answer.arguments.relation_types)
            listed == UNION {SummaryIds(ListAt(result, l)) : l \in ListsOf(result)}
            explored == {p \in listed \cup {x} :
                            Depth(graph, types, x, p) < answer.arguments.max_depth}
        IN /\ \A l \in ListsOf(result) :
                Cardinality(SummaryIds(ListAt(result, l))) = Len(ListAt(result, l))
           /\ \A l1, l2 \in ListsOf(result) :
                l1 # l2 =>
                    SummaryIds(ListAt(result, l1)) \cap SummaryIds(ListAt(result, l2)) = {}
           /\ x \notin listed
           /\ Fresh /\ answer.arguments.include_content =>
                \A l \in ListsOf(result) : \A c \in SummaryIds(ListAt(result, l)) :
                    LET finders == {p \in explored :
                                       \E r \in types : <<p, c, r>> \in Edges(graph)}
                        first == CHOOSE p \in finders : \A p2 \in finders :
                                    Position(result.context_notes, x, p)
                                        <= Position(result.context_notes, x, p2)
                    IN <<first, c, l[2]>> \in Edges(graph)

\* an expansion that lists a concept two explored concepts of one depth have
\* edges to, of different relation types
C14_Witness ==
    /\ Expanded /\ "error" \notin DOMAIN answer.result
    /\ Fresh /\ answer.arguments.include_content
    /\ LET result == answer.result
           x == answer.arguments.concept_id
           types == SeqToSet(answer.arguments.relation_types)
           listed == UNION {SummaryIds(ListAt(result, l)) : l \in ListsOf(result)}
           explored == {p \in listed \cup {x} :
                           Depth(graph, types, x, p) < answer.arguments.max_depth}
       IN \E c \in listed : \E p1, p2 \in explored : \E r1, r2 \in types :
            /\ r1 # r2
            /\ Depth(graph, types, x, p1) = 1
            /\ Depth(graph, types, x, p2) = 1
            /\ <<p1, c, r1>> \in Edges(graph)
            /\ <<p2, c, r2>> \in Edges(graph)

\* the ids of a list of summaries or notes, in the order of the list
IdsOf(entries) == [i \in 1..Len(entries) |-> entries[i].id]

PathAsked == last.op = "get_concept_path"

\* the nodes within d edges of a, edges taken either way
RECURSIVE Joined(_, _, _)
Joined(g, a, d) ==
    IF d = 0 THEN {a}
    ELSE LET near == Joined(g, a, d - 1)
         IN near \cup {e[2] : e \in {f \in EdgePairs(g) : f[1] \in near}}
                 \cup {e[1] : e \in {f \in EdgePairs(g) : f[2] \in near}}

\* the nodes joined to a in the undirected projection
Component(g, a) == Joined(g, a, Cardinality(Nodes(g)))

\* C16: get_concept_path(a, b) returns an error result exactly when a or b
\* is no node; when both are nodes that the undirected projection does not
\* join, it returns from, to, a null path and a message, and no error.
C16_NotFoundOrNoPath ==
    PathAsked =>
        LET result == answer.result
            a == answer.arguments.from_concept
            b == answer.arguments.to_concept
        IN /\ "error" \in DOMAIN result <=> ~has_node(graph, a) \/ ~has_node(graph, b)
           /\ "error" \in DOMAIN result => DOMAIN result = {"error"}
           /\ has_node(graph, a) /\ has_node(graph, b) /\ b \notin Component(graph, a) =>
                /\ DOMAIN result = {"from", "to", "path", "message"}
                /\ result.path = None
                /\ result.from = a /\ result.to = b

\* a path asked between two nodes that nothing joins, in a graph with edges
C16_Witness ==
    /\ PathAsked
    /\ has_node(graph, answer.arguments.from_concept)
    /\ has_node(graph, answer.arguments.to_concept)
    /\ answer.arguments.to_concept \notin Component(graph, answer.arguments.from_concept)
    /\ Edges(graph) # {}
    /\ "path" \in DOMAIN answer.result

\* C17: when the undirected projection joins a and b, the path returned
\* starts at a, ends at b, has an edge one way or the other between every two
\* consecutive entries, and length is the number of entries less one and the
\* least number of edges that joins a and b; from a to a it is 0.
C17_ShortestPath ==
    PathAsked /\ has_node(graph, answer.arguments.from_concept)
              /\ answer.arguments.to_concept
                    \in Component(graph, answer.arguments.from_concept) =>
        LET result == answer.result
            a == answer.arguments.from_concept
            b == answer.arguments.to_concept
        IN /\ DOMAIN result = {"from", "to", "length", "path"}
           /\ LET path == IdsOf(result.path)
              IN /\ path[1] = a
                 /\ path[Len(path)] = b
                 /\ \A i \in 1..(Len(path) - 1) :
                        \/ <<path[i], path[i + 1]>> \in EdgePairs(graph)
                        \/ <<path[i + 1], path[i]>> \in EdgePairs(graph)
                 /\ result.length = Len(path) - 1
                 /\ b \in Joined(graph, a, result.length)
                 /\ result.length > 0 => b \notin Joined(graph, a, result.length - 1)
                 /\ a = b => result.length = 0

\* a path of three edges, one of them against its direction
C17_Witness ==
    /\ PathAsked
    /\ "length" \in DOMAIN answer.result
    /\ answer.result.length = 3
    /\ \E i \in 1..3 :
        <<answer.result.path[i].id, answer.result.path[i + 1].id>> \notin EdgePairs(graph)

\* the position of node n in the node order of g
NodePosition(g, n) == CHOOSE i \in 1..Len(g.nodes) : g.nodes[i] = n

\* the score of node n for the query of the most recent search
Score(n) == score(graph.node[n], Lower(answer.arguments.query))

\* n ranks before m: a higher score, or the same score and earlier in the
\* node order
RanksBefore(n, m) ==
    \/ Score(n) > Score(m)
    \/ Score(n) = Score(m) /\ NodePosition(graph, n) < NodePosition(graph, m)

\* C18: search_by_text(query, limit) with limit >= 0 returns the first limit
\* entries (all of them if there are fewer) of the nodes with a positive
\* score, ranked by falling score and, among equal scores, by node order.
C18_TopOfStableRanking ==
    last.op = "search_by_text" /\ answer.arguments.limit >= 0 =>
        LET result == answer.result
            matching == {n \in Nodes(graph) : Score(n) > 0}
        IN /\ Len(result) = IF answer.arguments.limit < Cardinality(matching)
                            THEN answer.arguments.limit ELSE Cardinality(matching)
           /\ SeqToSet(result) \subseteq matching
           /\ \A i, j \in 1..Len(result) : i < j => RanksBefore(result[i], result[j])
           /\ \A n \in matching \ SeqToSet(result) :
                \A i \in 1..Len(result) : RanksBefore(result[i], n)

\* a search that returns two of three matching nodes with one score
C18_Witness ==
    /\ last.op = "search_by_text"
    /\ answer.arguments.limit = 2
    /\ Len(answer.result) = 2
    /\ Cardinality({n \in Nodes(graph) : Score(n) > 0}) = 3
    /\ \A n, m \in Nodes(graph) : Score(n) = Score(m)

\* the ids a search returned, in order
Hits ==
    IF answer.tool = "search_concepts" THEN IdsOf(answer.result.results) ELSE answer.result

\* node n is described by its prefLabel alone
LabelOnly(n) == graph.node[n].altLabel = <<>> /\ graph.node[n].definition = None

\* C19: of two nodes described by their prefLabels alone, one whose prefLabel
\* is the query up to case and one whose prefLabel has the query as a proper
\* substring, the first comes strictly before the second in the result of
\* search_by_text and in the results of search_concepts, whenever the second
\* is returned; and search_concepts reports as count the number of results.
C19_ExactBeforeSubstring ==
    last.op \in {"search_by_text", "search_concepts"} =>
        /\ \A exact, part \in Nodes(graph) :
            /\ LabelOnly(exact) /\ LabelOnly(part)
            /\ Lower(graph.node[exact].prefLabel) = Lower(answer.arguments.query)
            /\ Contains(Lower(answer.arguments.query), Lower(graph.node[part].prefLabel))
            /\ Lower(graph.node[part].prefLabel) # Lower(answer.arguments.query)
            /\ part \in SeqToSet(Hits)
            => \E i, j \in 1..Len(Hits) : i < j /\ Hits[i] = exact /\ Hits[j] = part
        /\ last.op = "search_concepts" =>
            /\ answer.result.count = Len(answer.result.results)
            /\ IdsOf(answer.result.results) =
                    search_by_text(graph, answer.arguments.query, answer.arguments.limit)
            /\ answer.result.query = answer.arguments.query

\* search_concepts returns an exact match before a substring match that
\* comes first in the node order, the query in another case than the label
C19_Witness ==
    /\ last.op = "search_concepts"
    /\ \E exact, part \in Nodes(graph) :
        /\ LabelOnly(exact) /\ LabelOnly(part)
        /\ graph.node[exact].prefLabel # answer.arguments.query
        /\ Lower(graph.node[exact].prefLabel) = Lower(answer.arguments.query)
        /\ Contains(Lower(answer.arguments.query), Lower(graph.node[part].prefLabel))
        /\ Lower(graph.node[part].prefLabel) # Lower(answer.arguments.query)
        /\ NodePosition(graph, part) < NodePosition(graph, exact)
        /\ \E i, j \in 1..Len(Hits) : i < j /\ Hits[i] = exact /\ Hits[j] = part

\* C20: the tool expand_context called with a relation-type name outside the
\* four, or with a negative max_depth, returns an error result.  Fails for
\* the relation-type name: the call returns a normal expansion with an empty
\* list under that name.
C20_InvalidArgumentReported ==
    last.op = "tool_expand_context" =>
        LET relation_types ==
                IF answer.arguments.relation_types = None THEN DefaultRelationTypes
                ELSE answer.arguments.relation_types
        IN \/ answer.arguments.max_depth < 0
           \/ SeqToSet(relation_types) \ RelationTypes # {}
           => "error" \in DOMAIN answer.result

(***************************************************************************)
(* A writer and a reader over one builder, indexer and query engine.  The  *)
(* code holds no lock and takes no snapshot: update_concept changes        *)
(* self.graph in three statements, rebuild_indexes is a call of its own,   *)
(* and the query engine reads the same graph and indexer objects.  The     *)
(* writer's position is last.op; a query of the reader is taken between    *)
(* any two statements of the writer and leaves last alone.                 *)
(***************************************************************************)
\* the positions of the writer between two write sequences
WriterIdle == last.op \in {"build_graph", "rebuild_indexes"}

\* the positions of the writer after a mutation call has returned
Mutated == last.op \in {"update_concept", "remove_concept"}

\* update_concept, first statement: the edges of an existing node removed
UpdateRemoveEdges ==
    /\ WriterIdle \/ Mutated
    /\ last.calls < MaxCalls
    /\ \E concept \in Concepts :
        /\ graph' = IF has_node(graph, concept.concept_id)
                    THEN remove_edges_from(graph,
                            in_edges(graph, concept.concept_id)
                                \cup out_edges(graph, concept.concept_id))
                    ELSE graph
        /\ last' = Call("update_concept.remove_edges_from", <<concept>>,
                        concept.concept_id, last.calls + 1, graph)
    /\ answer' = NoAnswer
    /\ UNCHANGED <<indexer, indexed>>

\* update_concept, second statement: the node and its attributes
UpdateAddNode ==
    /\ last.op = "update_concept.remove_edges_from"
    /\ graph' = add_concept_node(graph, last.concepts[1])
    /\ last' = [last EXCEPT !.op = "update_concept._add_concept_node"]
    /\ answer' = NoAnswer
    /\ UNCHANGED <<indexer, indexed>>

\* update_concept, third statement: the edges of the record
UpdateAddRelations ==
    /\ last.op = "update_concept._add_concept_node"
    /\ graph' = add_concept_relations(graph, last.concepts[1])
    /\ last' = [last EXCEPT !.op = "update_concept"]
    /\ answer' = NoAnswer
    /\ UNCHANGED <<indexer, indexed>>

\* remove_concept by the writer
WriterRemove == (WriterIdle \/ Mutated) /\ RemoveConcept

\* rebuild_indexes by the writer, the end of a write sequence
WriterRebuild == Mutated /\ RebuildIndexes

\* a query of the reader: expand_context over the graph and the indexes as
\* they are at that moment
Observe ==
    /\ Indexing
    /\ answer = NoAnswer
    /\ \E concept_id \in Ids, max_depth \in 1..MaxDepth :
        answer' =
            [tool |-> "expand_context",
             arguments |-> [concept_id |-> concept_id,
                            relation_types |-> DefaultRelationTypes,
                            max_depth |-> max_depth, include_content |-> FALSE],
             result |-> expand_context(graph, indexer, concept_id,
                                       DefaultRelationTypes, max_depth, FALSE)]
    /\ UNCHANGED <<graph, indexer, indexed, last>>

NextConcurrent ==
    \/ BuildGraph
    \/ UpdateRemoveEdges
    \/ UpdateAddNode
    \/ UpdateAddRelations
    \/ WriterRemove
    \/ WriterRebuild
    \/ Observe

SpecConcurrent == InitStale /\ [][NextConcurrent]_vars

\* the three statements of the writer make update_concept
StatementsMakeUpdate ==
    last.op = "update_concept" => graph = update_concept(last.before, last.concepts[1])

\* C21: a query is answered only from a graph no write sequence is at work
\* on: never between two statements of update_concept, and never after a
\* mutation whose rebuild_indexes has not completed.
C21_NoMidMutationObserved ==
    answer.tool = "expand_context" => WriterIdle

(***************************************************************************)
(* The tool get_concept and the statistics.  A dictionary the tool holds   *)
(* is [of, data]: of names the node whose own attribute dictionary it is,  *)
(* and is "" for a dictionary of its own; an assignment to a key of a      *)
(* node's own dictionary is an assignment to the graph.                    *)
(***************************************************************************)
\* GraphIndexer.find_by_label; "" stands for None, as false as None is
find_by_label(indexes, label) == Get(indexes.label_index, Lower(label), "")

\* self.graph.nodes[concept_id] itself
node_dict(g, concept_id) == [of |-> concept_id, data |-> g.node[concept_id]]

\* dict(self.graph.nodes[concept_id]): a new dictionary with the same items
dict_copy(g, concept_id) == [of |-> "", data |-> g.node[concept_id]]

\* the graph after the assignments made to a dictionary
stored(g, concept) ==
    IF concept.of = "" THEN g ELSE [g EXCEPT !.node[concept.of] = concept.data]

\* concept.pop(rel, None) for each of the four names
pop_relations(concept) ==
    [concept EXCEPT !.data =
        [k \in DOMAIN @ \ {"broader", "narrower", "related", "prerequisite"} |-> @[k]]]

\* the tool get_concept: its result and the graph it leaves
tool_get_concept(g, indexes, concept_id, include_relations) ==
    LET id == sanitize_concept_id(concept_id)
    IN IF "raised" \in DOMAIN id THEN [result |-> [error |-> id.raised], graph |-> g]
       ELSE LET found_id ==
                    IF found(g, Id(id.value)) THEN Id(id.value)
                    ELSE find_by_label(indexes, id.value)
            IN IF ~found(g, found_id)
               THEN [result |-> [error |-> <<"Concept not found", id.value>>,
                                 available_count |-> Len(g.nodes)],
                     graph |-> g]
               ELSE LET concept == dict_copy(g, found_id)
                        truncated ==
                            IF "content" \in DOMAIN concept.data
                            THEN [concept EXCEPT !.data.content = truncate_content(@)]
                            ELSE concept
                        returned ==
                            IF include_relations THEN truncated
                            ELSE pop_relations(truncated)
                    IN [result |-> returned.data, graph |-> stored(g, returned)]

\* graph.number_of_edges()
number_of_edges(g) == Cardinality(EdgePairs(g))

\* GraphQueryEngine.get_statistics
get_statistics(g) ==
    [total_concepts |-> Len(g.nodes), total_relations |-> number_of_edges(g)]

(***************************************************************************)
(* Every query of the engine and the tool get_concept over a vault of two  *)
(* concepts, after the build and after mutations; a query that follows a   *)
(* query is the same query asked again.  A query's step takes the graph to *)
(* whatever the query's code leaves.                                       *)
(***************************************************************************)
FrameQueries ==
    {"tool_get_concept", "get_concept", "expand_context", "get_concept_path",
     "search_concepts", "get_statistics"}

\* a query answered: its name, arguments and result, and the graph it leaves
Answered(tool, arguments, result, g) ==
    /\ Indexing
    /\ last.op \in FrameQueries => last.op = tool /\ answer.arguments = arguments
    /\ answer' = [tool |-> tool, arguments |-> arguments, result |-> result]
    /\ last' = Call(tool, <<>>, "", last.calls, graph)
    /\ graph' = g
    /\ UNCHANGED <<indexer, indexed>>

\* what a caller of the tool get_concept sends: an id, an id in capitals, a
\* preferred label, a text with a space
GetConceptInputs == {<<"a">>, <<"B">>, <<"R">>, <<"a", " ", "b">>}

\* the tool get_concept with an input from the given set
GetConceptWith(inputs) ==
    \E concept_id \in inputs, include_relations \in BOOLEAN :
        LET returned == tool_get_concept(graph, indexer, concept_id, include_relations)
        IN Answered("tool_get_concept",
                    [concept_id |-> concept_id, include_relations |-> include_relations],
                    returned.result, returned.graph)

GetConceptTool == GetConceptWith(GetConceptInputs)

\* GraphQueryEngine.get_concept
GetConcept ==
    \E concept_id \in Ids :
        Answered("get_concept", [concept_id |-> concept_id],
                 IF has_node(graph, concept_id)
                 THEN dict_copy(graph, concept_id).data ELSE None,
                 graph)

\* GraphQueryEngine.expand_context
ExpandFrame ==
    \E concept_id \in Ids, include_content \in BOOLEAN :
        Answered("expand_context",
                 [concept_id |-> concept_id, relation_types |-> DefaultRelationTypes,
                  max_depth |-> MaxDepth, include_content |-> include_content],
                 expand_context(graph, indexer, concept_id, DefaultRelationTypes,
                                MaxDepth, include_content),
                 graph)

\* GraphQueryEngine.get_concept_path
PathFrame ==
    \E from_concept \in Ids, to_concept \in Ids :
        \E result \in get_concept_path(graph, from_concept, to_concept) :
            Answered("get_concept_path",
                     [from_concept |-> from_concept, to_concept |-> to_concept],
                     result, graph)

\* GraphQueryEngine.search_concepts
SearchFrame ==
    \E query \in {<<"r">>, <<"x">>} :
        Answered("search_concepts", [query |-> query, limit |-> MaxLimit],
                 search_concepts(graph, query, MaxLimit), graph)

\* GraphQueryEngine.get_statistics
GetStatistics ==
    Answered("get_statistics", EmptyDict, get_statistics(graph), graph)

NextFrame ==
    \/ BuildGraph
    \/ UpdateConcept
    \/ RemoveConcept
    \/ RebuildIndexes
    \/ GetConceptTool
    \/ GetConcept
    \/ ExpandFrame
    \/ PathFrame
    \/ SearchFrame
    \/ GetStatistics

SpecFrame == InitStale /\ [][NextFrame]_vars

WordLabels == {<<"R">>, <<"R", " ", "x">>}

LabelConcepts == ConceptsWith(Ids, WordLabels, 1)

\* what the caller sends: the labels of the records, as written and in the
\* other case, and a label of no record
LabelInputs ==
    {<<"R">>, <<"r">>, <<"R", " ", "x">>, <<"r", " ", "X">>, <<"x">>}

GetConceptByLabel == last.op # "tool_get_concept" /\ GetConceptWith(LabelInputs)

InitLabel == NewVault(<<"a", "b">>, LabelConcepts)

NextLabel == BuildGraph \/ GetConceptByLabel

SpecLabel == InitLabel /\ [][NextLabel]_vars

\* the nodes whose preferred label is the text, case aside
Labelled(g, text) ==
    {n \in DOMAIN g.node : Lower(g.node[n].prefLabel) = Lower(text)}

\* C23: the tool get_concept, given a text that is no node id and is, case
\* aside, the preferred label of a node of the graph the indexes were built
\* from, returns the data of a concept with that label, not an error.  Fails
\* for a label with a character outside [a-zA-Z0-9_-], a space for one.
C23_FoundByLabel ==
    /\ last.op = "tool_get_concept"
    /\ Fresh
    /\ ~has_node(graph, Id(answer.arguments.concept_id))
    /\ Labelled(graph, answer.arguments.concept_id) # {}
    => /\ "error" \notin DOMAIN answer.result
       /\ answer.result.concept_id \in Labelled(graph, answer.arguments.concept_id)

\* the ids listed in the lists of one kind of a result
ListedIn(lists) == UNION {SummaryIds(lists[r]) : r \in DOMAIN lists}

\* the concepts at most d edges from x, none for a negative d
Reach(g, types, x, d) == IF d < 0 THEN {} ELSE Within(g, types, x, d)

\* C24: with indexes built from the graph as it is, expand_context lists a
\* concept as a direct relation iff it is one edge of the requested relation
\* types from the focus concept (and max_depth >= 1), as a transitive relation
\* iff its least number of such edges is between 2 and max_depth, and lists
\* no other concept; with max_depth = 0 every list of every requested type is
\* empty.
C24_ClassifiedByDepth ==
    Expanded /\ Fresh /\ "error" \notin DOMAIN answer.result =>
        LET x == answer.arguments.concept_id
            types == SeqToSet(answer.arguments.relation_types)
            m == answer.arguments.max_depth
            result == answer.result
        IN /\ DOMAIN result.direct_relations = types
           /\ DOMAIN result.transitive_relations = types
           /\ ListedIn(result.direct_relations) =
                IF m >= 1 THEN Reach(graph, types, x, 1) \ {x} ELSE {}
           /\ ListedIn(result.transitive_relations) =
                IF m >= 2 THEN Reach(graph, types, x, m) \ Reach(graph, types, x, 1)
                ELSE {}
           /\ m = 0 =>
                \A r \in types :
                    result.direct_relations[r] = <<>> /\ result.transitive_relations[r] = <<>>

\* an expansion to depth 2 that lists a concept two edges away as transitive,
\* over a graph with an edge of a type that was not requested
C24_Witness ==
    /\ Expanded /\ Fresh /\ "error" \notin DOMAIN answer.result
    /\ answer.arguments.max_depth = 2
    /\ ListedIn(answer.result.direct_relations) # {}
    /\ ListedIn(answer.result.transitive_relations) # {}
    /\ \E e \in Edges(graph) : e[3] \notin SeqToSet(answer.arguments.relation_types)

(***************************************************************************)
(* expand_context turn by turn of its loop, over the graphs built from the *)
(* vault of three concepts: graphs with self-loops, mutual related edges   *)
(* and cycles.  While the loop runs, last.op is "expand_context.while" and *)
(* answer.result holds visited, the lists and the queue; max_depth is      *)
(* larger than the number of nodes, so that the depth ends no traversal.   *)
(* The call is synchronous: a loop that can take a turn takes it.          *)
(***************************************************************************)
TurnTypeLists == {DefaultRelationTypes, <<"related", "prerequisite">>}

\* the engine and the arguments of the call in progress
Asked ==
    [graph |-> graph, indexer |-> indexer,
     relation_types |-> answer.arguments.relation_types,
     max_depth |-> answer.arguments.max_depth,
     include_content |-> answer.arguments.include_content]

InLoop == last.op = "expand_context.while"

\* expand_context up to its loop
ExpandCall ==
    /\ Indexing
    /\ last.op = "build_graph"
    /\ \E concept_id \in SeqToSet(QueryIds) \cup {"z"}, relation_types \in TurnTypeLists :
        /\ answer' =
            [tool |-> "expand_context",
             arguments |-> [concept_id |-> concept_id, relation_types |-> relation_types,
                            max_depth |-> MaxDepth + 2, include_content |-> FALSE],
             result |-> IF found(graph, concept_id)
                        THEN traversal(concept_id, relation_types)
                        ELSE [error |-> <<"Concept not found", concept_id>>]]
        /\ last' = Call(IF found(graph, concept_id) THEN "expand_context.while"
                        ELSE "expand_context",
                        <<>>, concept_id, last.calls, graph)
    /\ UNCHANGED <<graph, indexer, indexed>>

\* one turn of the loop
ExpandTurn ==
    /\ InLoop
    /\ answer.result.queue # <<>>
    /\ answer' = [answer EXCEPT !.result = dequeue(Asked, @)]
    /\ UNCHANGED <<graph, indexer, indexed, last>>

\* the queue is empty: the response
ExpandReturn ==
    /\ InLoop
    /\ answer.result.queue = <<>>
    /\ answer' = [answer EXCEPT !.result =
                    response(graph, answer.arguments.concept_id, @,
                             answer.arguments.include_content)]
    /\ last' = [last EXCEPT !.op = "expand_context"]
    /\ UNCHANGED <<graph, indexer, indexed>>

NextTurns == BuildGraph \/ ExpandCall \/ ExpandTurn \/ ExpandReturn

SpecTurns == InitQuery /\ [][NextTurns]_vars

SpecTurnsFair == SpecTurns /\ WF_vars(ExpandTurn) /\ WF_vars(ExpandReturn)

\* the turns of the loop make expand_context
TurnsMakeExpand ==
    Expanded =>
        answer.result =
            expand_context(graph, indexer, answer.arguments.concept_id,
                           answer.arguments.relation_types, answer.arguments.max_depth,
                           answer.arguments.include_content)

\* the ids of the entries of a queue
QueueIds(queue) == {queue[i][1] : i \in 1..Len(queue)}

\* C25: a call of expand_context that has entered its loop returns, on every
\* graph built, cycles, mutual related edges and self-loops included; a turn
\* of the loop enqueues only concepts that were not visited before it and
\* marks them visited, each once, so no concept is enqueued twice.
\* (get_concept_path has no loop of its own: its search is networkx's
\* shortest_path, taken here as a function that returns.)
C25_Terminates ==
    /\ InLoop ~> Expanded
    /\ [][InLoop /\ InLoop' =>
            LET queue == answer.result.queue
                after == answer'.result.queue
                new == SubSeq(after, Len(queue), Len(after))
            IN /\ Len(after) >= Len(queue) - 1
               /\ SubSeq(after, 1, Len(queue) - 1) = Tail(queue)
               /\ QueueIds(new) \cap answer.result.visited = {}
               /\ QueueIds(new) \subseteq answer'.result.visited
               /\ Cardinality(QueueIds(new)) = Len(new)]_vars

\* an expansion has returned over a graph where an edge of a requested type
\* leads from a listed concept back to the focus concept or to itself
C25_Witness ==
    /\ Expanded
    /\ "error" \notin DOMAIN answer.result
    /\ \E e \in Edges(graph) :
        /\ e[1] \in ListedIn(answer.result.direct_relations)
                        \cup ListedIn(answer.result.transitive_relations)
        /\ e[2] \in {answer.arguments.concept_id, e[1]}
        /\ e[3] \in SeqToSet(answer.arguments.relation_types)

\* the passes of the relation loops of _add_concept_relations for one record,
\* in the order of the code, each <<record, relation type, id named>>
PassesOf(concept) ==
    [i \in 1..Len(concept.broader) |-> <<concept, "broader", concept.broader[i]>>]
        \o [i \in 1..Len(concept.narrower) |-> <<concept, "narrower", concept.narrower[i]>>]
        \o [i \in 1..Len(concept.related) |-> <<concept, "related", concept.related[i]>>]
        \o [i \in 1..Len(concept.prerequisite) |->
                <<concept, "prerequisite", concept.prerequisite[i]>>]

\* the passes of the second loop of build_graph
RECURSIVE Passes(_)
Passes(concepts) ==
    IF concepts = <<>> THEN <<>> ELSE PassesOf(Head(concepts)) \o Passes(Tail(concepts))

\* for each pass in turn, the edges <<source, target>> the graph has after it
\* and had not before it
RECURSIVE Insertions(_, _)
Insertions(g, passes) ==
    IF passes = <<>> THEN <<>>
    ELSE LET pass == Head(passes)
             g1 == add_relations_of(g, pass[1], pass[2], <<pass[3]>>)
         IN <<EdgePairs(g1) \ EdgePairs(g)>> \o Insertions(g1, Tail(passes))

\* the pass that inserted the edge e
InsertedAt(log, e) == CHOOSE i \in 1..Len(log) : e \in log[i]

\* the targets of the edges of s that have type r, in the order of s's edges
TypedTargets(g, s, r) ==
    LET typed == SelectSeq(g.adj[s], LAMBDA edge : edge.relation_type = r)
    IN [i \in 1..Len(typed) |-> typed[i].to]

\* C26: right after the indexer is constructed or rebuild_indexes returns,
\* relation_index[r][s] lists exactly the targets of the edges s->t that have
\* type r, each once, in the order in which those edges were inserted into
\* the graph (an edge that was given another type since keeps the place of
\* its insertion); and the index has no entry for a source that has no such
\* edge, a concept that is no node any more included.
C26_IndexInInsertionOrder ==
    last.op \in {"build_graph", "rebuild_indexes"} /\ Indexing =>
        \A r \in RelationTypes :
            /\ \A s \in Nodes(graph) :
                LET targets == Get(indexer.relation_index[r], s, <<>>)
                IN /\ SeqToSet(targets) = Targets(graph, s, r)
                   /\ targets = TypedTargets(graph, s, r)
                   /\ last.op = "build_graph" =>
                        LET log == Insertions(add_all_nodes(last.before, last.concepts),
                                              Passes(last.concepts))
                        IN \A i, j \in 1..Len(targets) :
                            i < j => InsertedAt(log, <<s, targets[i]>>)
                                        < InsertedAt(log, <<s, targets[j]>>)
            /\ \A s \in DOMAIN indexer.relation_index[r] :
                has_node(graph, s) /\ Targets(graph, s, r) # {}

\* the indexes were rebuilt after a mutation, and a concept has two edges of
\* one type
C26_Witness ==
    /\ Rebuilt
    /\ last.calls >= 1
    /\ \E r \in RelationTypes : \E s \in Nodes(graph) :
        Len(Get(indexer.relation_index[r], s, <<>>)) >= 2

(***************************************************************************)
(* The label indexes: a vault of two concepts whose preferred and          *)
(* alternative labels differ in case only, are shared, or are empty;       *)
(* update_concept and remove_concept follow the build, rebuild_indexes     *)
(* comes at any time.                                                      *)
(***************************************************************************)
CaseLabels == {<<"R">>, <<"r">>, <<>>}

CaseAltLabelLists == {<<>>, << <<"X">> >>, << <<"x">>, <<"R">> >>}

CaseConcepts == Described(Ids, CaseLabels, CaseAltLabelLists, {None}, {None}, 0)

UpdateCase == Update(CaseConcepts)

InitCase == NewVault(<<"a", "b">>, CaseConcepts)

NextCase == BuildGraph \/ UpdateCase \/ RemoveConcept \/ RebuildIndexes

SpecCase == InitCase /\ [][NextCase]_vars

\* the node that comes last in the graph's node order
LastOf(g, nodes) ==
    CHOOSE n \in nodes : \A m \in nodes : NodePosition(g, m) <= NodePosition(g, n)

\* the nodes with the alternative label, case aside
AltLabelled(g, text) ==
    {n \in DOMAIN g.node :
        \E i \in 1..Len(g.node[n].altLabel) : Lower(g.node[n].altLabel[i]) = Lower(text)}

\* C27: right after the indexer is constructed or rebuild_indexes returns,
\* the keys of label_index are the lower-cased non-empty preferred labels of
\* the nodes, and each key maps to the node that comes last in the graph's
\* node order among those with that label, case aside; alt_label_index is
\* the same over every non-empty alternative label of every node.
C27_LastNodeWins ==
    last.op \in {"build_graph", "rebuild_indexes"} /\ Indexing =>
        /\ DOMAIN indexer.label_index =
            {Lower(graph.node[n].prefLabel) :
                n \in {m \in Nodes(graph) : graph.node[m].prefLabel # <<>>}}
        /\ \A key \in DOMAIN indexer.label_index :
            indexer.label_index[key] = LastOf(graph, Labelled(graph, key))
        /\ DOMAIN indexer.alt_label_index =
            UNION {{Lower(l) : l \in SeqToSet(graph.node[n].altLabel) \ {<<>>}} :
                      n \in Nodes(graph)}
        /\ \A key \in DOMAIN indexer.alt_label_index :
            indexer.alt_label_index[key] = LastOf(graph, AltLabelled(graph, key))

\* the indexes were rebuilt after a mutation over two nodes whose preferred
\* labels differ in case only and that share an alternative label
C27_Witness ==
    /\ Rebuilt
    /\ last.calls >= 1
    /\ graph.nodes = <<"a", "b">>
    /\ graph.node["a"].prefLabel # graph.node["b"].prefLabel
    /\ Lower(graph.node["a"].prefLabel) = Lower(graph.node["b"].prefLabel)
    /\ graph.node["a"].prefLabel # <<>>
    /\ \E key \in DOMAIN indexer.alt_label_index : AltLabelled(graph, key) = {"a", "b"}

(***************************************************************************)
(* Statistics over the builder's life: get_statistics of the builder at    *)
(* any time, of the query engine once the server has constructed it.       *)
(***************************************************************************)
\* networkx's breadth-first search over successors and predecessors
RECURSIVE plain_bfs(_, _)
plain_bfs(G, seen) ==
    LET next == seen \cup UNION {G[n] : n \in seen}
    IN IF next = seen THEN seen ELSE plain_bfs(G, next)

\* nx.is_weakly_connected: the first component is all of the graph; the
\* graph without nodes raises NetworkXPointlessConcept
is_weakly_connected(g) ==
    IF Len(g.nodes) = 0
    THEN [raised |-> "Connectivity is undefined for the null graph."]
    ELSE [value |-> plain_bfs(to_undirected(g), {g.nodes[1]}) = DOMAIN g.node]

\* nx.density of a directed graph, as numerator and denominator
density(g) ==
    LET n == Len(g.nodes)
        m == number_of_edges(g)
    IN IF m = 0 \/ n <= 1 THEN [numerator |-> 0, denominator |-> 1]
       ELSE [numerator |-> m, denominator |-> n * (n - 1)]

\* KnowledgeGraphBuilder.get_statistics
builder_get_statistics(g) ==
    LET connected == is_weakly_connected(g)
    IN IF "raised" \in DOMAIN connected THEN connected
       ELSE [total_concepts |-> Len(g.nodes),
             total_relations |-> number_of_edges(g),
             density |-> density(g),
             is_connected |-> connected.value]

StatisticsOps == {"builder.get_statistics", "get_statistics"}

BuilderStatistics ==
    /\ last.op \notin StatisticsOps
    /\ answer' = [tool |-> "builder.get_statistics", arguments |-> EmptyDict,
                  result |-> builder_get_statistics(graph)]
    /\ last' = Call("builder.get_statistics", <<>>, "", last.calls, graph)
    /\ UNCHANGED <<graph, indexer, indexed>>

EngineStatistics == last.op \notin StatisticsOps /\ GetStatistics

NextStatistics ==
    \/ BuildGraph
    \/ UpdateConcept
    \/ RemoveConcept
    \/ BuilderStatistics
    \/ EngineStatistics

SpecStatistics == Init /\ [][NextStatistics]_vars

\* C28: in every graph the builder reaches, the graph without nodes
\* included, the builder's get_statistics returns total_concepts = the number
\* of nodes, total_relations = the number of directed edges and is_connected
\* = whether the undirected projection is one connected component; the query
\* engine's get_statistics returns the two counts and nothing else.  Fails
\* for the graph without nodes: the builder's get_statistics raises.
C28_StatisticsOfEveryGraph ==
    /\ last.op = "builder.get_statistics" =>
        /\ "raised" \notin DOMAIN answer.result
        /\ answer.result.total_concepts = Cardinality(Nodes(graph))
        /\ answer.result.total_relations = Cardinality(EdgePairs(graph))
        /\ answer.result.is_connected =
            (\E a \in Nodes(graph) : Component(graph, a) = Nodes(graph))
    /\ last.op = "get_statistics" =>
        answer.result = [total_concepts |-> Cardinality(Nodes(graph)),
                         total_relations |-> Cardinality(EdgePairs(graph))]

\* the keys of SKOSConcept.to_dict()
AttributeKeys ==
    {"concept_id", "uri", "prefLabel", "altLabel", "definition", "notation", "broader",
     "narrower", "related", "academic", "file_path", "content"}

\* C29: whatever build_graph, update_concept and remove_concept were called,
\* both ends of every edge are nodes of the graph, every node carries the
\* attributes of a record that was ingested under its id (no node was made
\* by add_edge alone), and an ordered pair of nodes has at most one edge,
\* whose relation_type is one of the four.
C29_WellFormedGraph ==
    /\ \A e \in Edges(graph) :
        /\ has_node(graph, e[1])
        /\ has_node(graph, e[2])
        /\ e[3] \in RelationTypes
    /\ \A n \in Nodes(graph) :
        /\ DOMAIN graph.node[n] = AttributeKeys
        /\ graph.node[n].concept_id = n
    /\ DOMAIN graph.adj = DOMAIN graph.node
    /\ \A s \in DOMAIN graph.adj :
        \A i, j \in 1..Len(graph.adj[s]) :
            graph.adj[s][i].to = graph.adj[s][j].to => i = j

\* a concept with edges was removed, or a record that names a concept that is
\* no node was put into the graph, and the graph has an edge left
C29_Witness ==
    /\ Edges(graph) # {}
    /\ \/ /\ last.op = "remove_concept"
          /\ has_node(last.before, last.concept_id)
          /\ IncidentEdges(last.before, last.concept_id) # {}
       \/ /\ last.op = "update_concept"
          /\ Named(last.concepts[1]) \ Nodes(graph) # {}

(***************************************************************************)
(* Queries over indexes that name removed concepts: the vault of three     *)
(* concepts, remove_concept and update_concept after the build and no      *)
(* rebuild_indexes, then expand_context.                                   *)
(***************************************************************************)
\* records without relations: update_concept with one removes the edges of
\* its concept
PlainConcepts == ConceptsWith(Ids, Labels, 0)

UpdatePlain == Update(PlainConcepts)

ExpandRemoved == Expand(SeqToSet(QueryIds), {DefaultRelationTypes}, {MaxDepth})

NextRemoved == BuildGraph \/ UpdatePlain \/ RemoveConcept \/ ExpandRemoved

SpecRemoved == InitQuery /\ [][NextRemoved]_vars

\* the nodes of g within d steps of x along the relation lists of the
\* indexes, each step from a node of g to a node of g
RECURSIVE IndexWithin(_, _, _, _, _)
IndexWithin(indexes, g, types, x, d) ==
    IF d <= 0 THEN {x}
    ELSE LET near == IndexWithin(indexes, g, types, x, d - 1)
         IN near \cup
            {n \in Nodes(g) :
                \E s \in near, r \in types :
                    n \in SeqToSet(get_related_concepts(indexes, s, r))}

\* C30: whatever the indexes still hold after update_concept and
\* remove_concept, expand_context of a node returns a result of the usual
\* shape whose summaries and notes are all of current nodes: a target the
\* indexes name that is no node any more is not listed and nothing is
\* reached through it, so the concepts listed are those the relation lists
\* reach from the focus concept through current nodes within max_depth.
C30_NoSummaryOfRemoved ==
    Expanded /\ has_node(graph, answer.arguments.concept_id) =>
        LET result == answer.result
            x == answer.arguments.concept_id
            types == SeqToSet(answer.arguments.relation_types)
            listed == ListedIn(result.direct_relations)
                        \cup ListedIn(result.transitive_relations)
        IN /\ DOMAIN result =
                {"focus_concept", "direct_relations", "transitive_relations"}
                    \cup (IF answer.arguments.include_content
                          THEN {"context_notes"} ELSE {})
           /\ DOMAIN result.direct_relations = types
           /\ DOMAIN result.transitive_relations = types
           /\ listed \subseteq Nodes(graph)
           /\ answer.arguments.include_content =>
                SummaryIds(result.context_notes) \subseteq Nodes(graph)
           /\ listed =
                IndexWithin(indexer, graph, types, x, answer.arguments.max_depth) \ {x}

\* an expansion whose focus concept has, in the indexes, a target that was
\* removed, which in turn has a target that is a node and is not listed
C30_Witness ==
    /\ Expanded
    /\ has_node(graph, answer.arguments.concept_id)
    /\ answer.arguments.max_depth >= 2
    /\ \E r1, r2 \in SeqToSet(answer.arguments.relation_types) :
        \E gone \in SeqToSet(get_related_concepts(indexer, answer.arguments.concept_id, r1)) :
            /\ ~has_node(graph, gone)
            /\ \E n \in SeqToSet(get_related_concepts(indexer, gone, r2)) :
                /\ has_node(graph, n)
                /\ n # answer.arguments.concept_id
                /\ n \notin ListedIn(answer.result.direct_relations)
                                \cup ListedIn(answer.result.transitive_relations)

====
